---- MODULE Spec2Model ----
(***************************************************************************)
(* Analysis orchestration engine of quantasaurus-rex:                      *)
(*   - QuantasaurusReactAgent (src/src/services/react_agent.py): the       *)
(*     per-asset analysis with its day-keyed cache, and the portfolio run  *)
(*     in Direct, Batched and Sequential mode;                             *)
(*   - retry_with_backoff / openai_retry (src/src/utils/retry.py).         *)
(* Confidences and scores are integers in hundredths (0.6 is 60).          *)
(* Delays are integers in tenths of a second.                              *)
(***************************************************************************)
EXTENDS Integers, Sequences, FiniteSets, TLC

(***************************************************************************)
(* Bounds of the exploration.                                              *)
(***************************************************************************)
MaxStocks == 2
MaxCrypto == 1
MaxConcurrent == 3
MaxCalls == 3
MaxDay == 1
MaxRetries == 2
MaxScoreCalls == 2

MaxPositions == MaxStocks + MaxCrypto
\* One analysis object per parallel task, per sequential call, per ad hoc call.
HeapSize == 2 * MaxPositions + MaxCalls

StockSymbols == {"AAPL", "BUYZ"}
CryptoSymbols == {"BTC"}
AllSymbols == StockSymbols \cup CryptoSymbols
Days == 0..MaxDay
\* Settings.max_concurrent_analyses is an unconstrained int.
ConcurrentValues == (0 - 1)..MaxConcurrent
StaggerValues == {0, 1}

NoAnalysis == [symbol |-> "none"]
NoKey == <<"none", 0 - 1>>
NoResponse == [text |-> FALSE]
NoCall == <<"none", 0>>
NoReturn == [fn |-> "none", rsi |-> 0, patterns |-> <<>>]

(***************************************************************************)
(* Positions and portfolios (src/src/models/portfolio.py).                 *)
(***************************************************************************)
\* The market value of a position, fixed per symbol in this model.
MarketValueOf(symbol) ==
    CASE symbol = "AAPL" -> 2000
      [] symbol = "BUYZ" -> 1000
      [] symbol = "BTC" -> 7000
      [] OTHER -> 100

StockPosition(symbol) ==
    [symbol |-> symbol, asset_type |-> "stock", market_value |-> MarketValueOf(symbol)]

CryptoPosition(symbol) ==
    [symbol |-> symbol, asset_type |-> "crypto", market_value |-> MarketValueOf(symbol)]

RECURSIVE SumValues(_)
SumValues(positions) ==
    IF positions = <<>> THEN 0
    ELSE Head(positions).market_value + SumValues(Tail(positions))

\* Portfolio.create_portfolio: total_value is the sum of the market values.
CreatePortfolio(stocks, crypto) ==
    [stocks |-> stocks, crypto |-> crypto,
     total_value |-> SumValues(stocks) + SumValues(crypto)]

\* Portfolio.all_positions and line 199 of react_agent.py: stocks + crypto.
AllPositions(portfolio) == portfolio.stocks \o portfolio.crypto

SeqsUpTo(S, n) == UNION {[1..k -> S] : k \in 0..n}

Portfolios ==
    {CreatePortfolio(s, c) :
        s \in SeqsUpTo({StockPosition(x) : x \in StockSymbols}, MaxStocks),
        c \in SeqsUpTo({CryptoPosition(x) : x \in CryptoSymbols}, MaxCrypto)}

\* Portfolio.get_position_by_symbol: the first position with that symbol.
GetPositionBySymbol(portfolio, symbol) ==
    LET all == AllPositions(portfolio)
        hits == {i \in 1..Len(all) : all[i].symbol = symbol}
    IN IF hits = {} THEN [symbol |-> "none"]
       ELSE all[CHOOSE i \in hits : \A j \in hits : i <= j]

(***************************************************************************)
(* AssetAnalysis (src/src/models/analysis.py) and the default              *)
(* sub-analyses of the agent.                                              *)
(***************************************************************************)
CreateDefaultTechnicalAnalysis == [technical_score |-> 50, confidence |-> 60]
CreateDefaultSentimentAnalysis == [sentiment_score |-> 0, confidence |-> 60]
CreateDefaultEventAnalysis == [overall_impact |-> "neutral", confidence |-> 60]
\* A variant with a low default risk (sensitivity of C29).
CreateDefaultRiskAssessmentLow ==
    [risk_level |-> "low", risk_score |-> 30, confidence |-> 60]

CreateDefaultRiskAssessment ==
    [risk_level |-> "medium", risk_score |-> 50, confidence |-> 60]

Clamp(lo, x, hi) == IF x < lo THEN lo ELSE IF x > hi THEN hi ELSE x

\* A variant that scales the overall score by the confidence (sensitivity of
\* C17).
CreateAnalysisConfidenceWeighted(position, technical, sentiment, event, risk, recommendation, reasoning) ==
    LET tech_score == technical.technical_score
        sentiment_score == (sentiment.sentiment_score + 100) \div 2
        risk_score == 100 - risk.risk_score
        overall == (tech_score * 40 + sentiment_score * 30 + risk_score * 30) \div 100
    IN [symbol |-> position.symbol,
        asset_type |-> position.asset_type,
        market_value |-> position.market_value,
        technical_analysis |-> technical,
        sentiment_analysis |-> sentiment,
        event_analysis |-> event,
        recommendation |-> recommendation,
        overall_score |-> Clamp(0, (overall * technical.confidence) \div 100, 100),
        confidence |-> (technical.confidence + sentiment.confidence + risk.confidence) \div 3,
        reasoning |-> reasoning,
        risk_level |-> risk.risk_level,
        risk_score |-> risk.risk_score,
        portfolio_weight |-> 0 - 1]

\* AssetAnalysis.create_analysis: the weighted overall score and the mean of
\* the technical, sentiment and risk confidences.  The risk assessment is
\* kept as the fields risk_level, risk_score and portfolio_weight.
CreateAnalysis(position, technical, sentiment, event, risk, recommendation, reasoning) ==
    LET tech_score == technical.technical_score
        sentiment_score == (sentiment.sentiment_score + 100) \div 2
        risk_score == 100 - risk.risk_score
        overall == (tech_score * 40 + sentiment_score * 30 + risk_score * 30) \div 100
    IN [symbol |-> position.symbol,
        asset_type |-> position.asset_type,
        market_value |-> position.market_value,
        technical_analysis |-> technical,
        sentiment_analysis |-> sentiment,
        event_analysis |-> event,
        recommendation |-> recommendation,
        overall_score |-> Clamp(0, overall, 100),
        confidence |-> (technical.confidence + sentiment.confidence + risk.confidence) \div 3,
        reasoning |-> reasoning,
        risk_level |-> risk.risk_level,
        risk_score |-> risk.risk_score,
        portfolio_weight |-> 0 - 1]

DefaultReasoning == "Default analysis due to processing error"

\* A variant whose default recommendation is BUY (sensitivity of C5, C6).
CreateDefaultAnalysisBuy(position) ==
    CreateAnalysis(position, CreateDefaultTechnicalAnalysis, CreateDefaultSentimentAnalysis,
                   CreateDefaultEventAnalysis, CreateDefaultRiskAssessment,
                   "BUY", DefaultReasoning)

\* _create_default_analysis
CreateDefaultAnalysis(position) ==
    CreateAnalysis(position, CreateDefaultTechnicalAnalysis, CreateDefaultSentimentAnalysis,
                   CreateDefaultEventAnalysis, CreateDefaultRiskAssessment,
                   "HOLD", DefaultReasoning)

(***************************************************************************)
(* Agent responses and _parse_agent_response.                              *)
(* A response is described by what the parser reads from it:               *)
(*   text       the content is a string (re.search raises on anything else)*)
(*   block      the === INVESTMENT RECOMMENDATION === block is present     *)
(*   rec        the block's Final Recommendation field, "NONE" if absent   *)
(*   kwBuy/kwSell  "BUY" / "SELL" occurs in the upper-cased text           *)
(*   conf       the block's Confidence Score figure times 100, -1 if none  *)
(*   scanConf   the first confidence figure the free-text patterns match   *)
(*              in the whole text, times 100, -1 if none                   *)
(*   reasoning  the extracted reasoning, "" if no pattern matches          *)
(*   neg/pos    distinct negative / positive indicators in that reasoning  *)
(***************************************************************************)
SymbolContains(symbol, word) ==
    CASE word = "BUY" -> symbol = "BUYZ"
      [] OTHER -> FALSE

FallbackReasoning(symbol) ==
    CASE symbol = "AAPL" ->
           "for AAPL: Unable to perform full AI analysis due to API limitations. Using default conservative approach."
      [] symbol = "BUYZ" ->
           "for BUYZ: Unable to perform full AI analysis due to API limitations. Using default conservative approach."
      [] symbol = "BTC" ->
           "for BTC: Unable to perform full AI analysis due to API limitations. Using default conservative approach."
      [] OTHER ->
           "for UNKNOWN: Unable to perform full AI analysis due to API limitations. Using default conservative approach."

\* The degraded response of _run_agent_analysis (lines 338-347): the text
\* names the symbol, and the 'analysis' reasoning pattern matches after
\* "Basic analysis".
FallbackResponse(symbol) ==
    [text |-> TRUE, block |-> FALSE, rec |-> "NONE",
     kwBuy |-> SymbolContains(symbol, "BUY"), kwSell |-> SymbolContains(symbol, "SELL"),
     conf |-> 0 - 1, scanConf |-> 0 - 1, reasoning |-> FallbackReasoning(symbol),
     neg |-> IF SymbolContains(symbol, "SELL") THEN 1 ELSE 0,
     pos |-> IF SymbolContains(symbol, "BUY") THEN 1 ELSE 0,
     fallback |-> TRUE]

\* Line 336: the agent returned no final message content.
NoMessageResponse ==
    [text |-> TRUE, block |-> FALSE, rec |-> "NONE", kwBuy |-> FALSE, kwSell |-> FALSE,
     conf |-> 0 - 1, scanConf |-> 0 - 1, reasoning |-> "completed", neg |-> 0, pos |-> 0,
     fallback |-> FALSE]

\* A structured BUY at 85% with supporting reasoning.
BuyBlockResponse ==
    [text |-> TRUE, block |-> TRUE, rec |-> "BUY", kwBuy |-> TRUE, kwSell |-> FALSE,
     conf |-> 8500, scanConf |-> 8500, reasoning |-> "Strong growth and upside",
     neg |-> 0, pos |-> 3,
     fallback |-> FALSE]

\* A final message whose content is not a string (a list of content parts).
NonTextResponse ==
    [text |-> FALSE, block |-> FALSE, rec |-> "NONE", kwBuy |-> FALSE, kwSell |-> FALSE,
     conf |-> 0 - 1, scanConf |-> 0 - 1, reasoning |-> "", neg |-> 0, pos |-> 0,
     fallback |-> FALSE]

AgentResponses == {BuyBlockResponse, NoMessageResponse, NonTextResponse}

\* Lines 396-399 and 430-434: a figure above 1 is a percentage; clamp to [0,1].
ConfidenceOf(raw) ==
    Clamp(0, IF raw > 100 THEN raw \div 100 ELSE raw, 100)

\* Lines 450-457: a confidence of 0 is replaced by the recommendation's default.
StrengthConfidence(recommendation, confidence) ==
    IF confidence # 0 THEN confidence
    ELSE CASE recommendation = "BUY" -> 75
           [] recommendation = "SELL" -> 70
           [] OTHER -> 60

Max(a, b) == IF a >= b THEN a ELSE b
Min(a, b) == IF a <= b THEN a ELSE b

\* A variant that also penalises a tie of the keyword counts (sensitivity
\* of C19).
ConsistencyConfidenceTies(recommendation, confidence, neg, pos) ==
    CASE recommendation = "BUY" /\ neg >= pos -> Max(30, confidence - 20)
      [] recommendation = "SELL" /\ pos >= neg -> Max(30, confidence - 20)
      [] OTHER -> confidence

\* A variant whose penalty has no floor (sensitivity of C20).
ConsistencyConfidenceUnfloored(recommendation, confidence, neg, pos) ==
    CASE recommendation = "BUY" /\ neg > pos -> confidence - 20
      [] recommendation = "SELL" /\ pos > neg -> confidence - 20
      [] OTHER -> confidence

\* Lines 459-485: the advisory consistency check.
ConsistencyConfidence(recommendation, confidence, neg, pos) ==
    CASE recommendation = "BUY" /\ neg > pos -> Max(30, confidence - 20)
      [] recommendation = "SELL" /\ pos > neg -> Max(30, confidence - 20)
      [] OTHER -> confidence

\* A variant that falls back to the keyword scan when the block lacks the
\* Final Recommendation field (sensitivity of C18).
ParseAgentResponseScanning(response, position) ==
    LET base == CreateAnalysis(position, CreateDefaultTechnicalAnalysis,
                               CreateDefaultSentimentAnalysis, CreateDefaultEventAnalysis,
                               CreateDefaultRiskAssessment, "HOLD",
                               "Default analysis with limited data")
        recommendation ==
            IF response.block /\ response.rec # "NONE" THEN response.rec
            ELSE (IF response.kwBuy THEN "BUY"
                  ELSE IF response.kwSell THEN "SELL" ELSE "HOLD")
        figure == IF response.block THEN response.conf ELSE response.scanConf
        parsed == IF figure < 0 THEN base.confidence ELSE ConfidenceOf(figure)
        matched == response.reasoning # ""
        reasoning == IF matched THEN response.reasoning ELSE base.reasoning
        neg == IF matched THEN response.neg ELSE 0
        pos == IF matched THEN response.pos ELSE 0
        confidence == ConsistencyConfidence(recommendation,
                          StrengthConfidence(recommendation, parsed), neg, pos)
    IN IF ~response.text
       THEN CreateDefaultAnalysis(position)
       ELSE [base EXCEPT !.recommendation = recommendation,
                         !.confidence = confidence,
                         !.reasoning = reasoning]

\* _parse_agent_response
ParseAgentResponse(response, position) ==
    LET base == CreateAnalysis(position, CreateDefaultTechnicalAnalysis,
                               CreateDefaultSentimentAnalysis, CreateDefaultEventAnalysis,
                               CreateDefaultRiskAssessment, "HOLD",
                               "Default analysis with limited data")
        recommendation ==
            IF response.block
            THEN (IF response.rec = "NONE" THEN base.recommendation ELSE response.rec)
            ELSE (IF response.kwBuy THEN "BUY"
                  ELSE IF response.kwSell THEN "SELL" ELSE "HOLD")
        figure == IF response.block THEN response.conf ELSE response.scanConf
        parsed == IF figure < 0 THEN base.confidence ELSE ConfidenceOf(figure)
        matched == response.reasoning # ""
        reasoning == IF matched THEN response.reasoning ELSE base.reasoning
        neg == IF matched THEN response.neg ELSE 0
        pos == IF matched THEN response.pos ELSE 0
        confidence == ConsistencyConfidence(recommendation,
                          StrengthConfidence(recommendation, parsed), neg, pos)
    IN IF ~response.text
       THEN CreateDefaultAnalysis(position)
       ELSE [base EXCEPT !.recommendation = recommendation,
                         !.confidence = confidence,
                         !.reasoning = reasoning]

(***************************************************************************)
(* State.                                                                  *)
(***************************************************************************)
VARIABLES
    \* QuantasaurusReactAgent fields
    enable_parallel_processing, max_concurrent_analyses, stagger_delay,
    aiera_service, analysis_cache, heap, today,
    \* one call of generate_portfolio_analysis
    pc, portfolio, tasks, all_analyses, batch_i, seq_i, result,
    \* observations of the run
    modes, batchLog, batchSleeps, seqFailed, agentRuns, firstStored,
    \* one execution of the retry wrapper
    rpc, rconfig, attempt, calls, sleeps, sleepLog, raised, lastError, thrown, script,
    \* the argument of one call of _parse_agent_response
    agent_response,
    \* the configuration method called last before the run, with its argument
    config_call,
    \* the argument and the returned value of one call of a DataProcessor method
    prices, returned

agentVars == <<enable_parallel_processing, max_concurrent_analyses, stagger_delay,
               aiera_service, analysis_cache, heap, today>>
runVars == <<pc, portfolio, tasks, all_analyses, batch_i, seq_i, result>>
ghostVars == <<modes, batchLog, batchSleeps, seqFailed, agentRuns, firstStored>>
retryVars == <<rpc, rconfig, attempt, calls, sleeps, sleepLog, raised, lastError, thrown,
               script>>
parseVars == <<agent_response>>
configVars == <<config_call>>
dataVars == <<prices, returned>>
vars == <<agentVars, runVars, ghostVars, retryVars, parseVars, configVars, dataVars>>

Keys == AllSymbols \X Days

\* cache_key = f"{position.symbol}_{today}" (line 134)
CacheKey(position, day) == <<position.symbol, day>>

Range(s) == {s[i] : i \in 1..Len(s)}

(***************************************************************************)
(* Errors and their classification (src/src/utils/retry.py).              *)
(***************************************************************************)
\* The errors an operation can raise.
\*   RateLimitError, APIConnectionError, APITimeoutError: the openai classes
\*   ServerError: an openai.APIStatusError with status_code >= 500
\*   ClientError: an openai.APIStatusError with status_code 400
\*   HttpServerError: an exception of another library with status_code = 503
\*   ValueError: any other exception, without status_code
ErrorKinds == {"RateLimitError", "APIConnectionError", "APITimeoutError",
               "ServerError", "ClientError", "HttpServerError", "ValueError"}

\* status_code of the error, -1 when it has no such attribute.
StatusCode(e) ==
    CASE e = "RateLimitError" -> 429
      [] e = "ServerError" -> 500
      [] e = "ClientError" -> 400
      [] e = "HttpServerError" -> 503
      [] OTHER -> 0 - 1

\* isinstance(e, exceptions) for the tuple of retry_with_backoff (line 84)
\* and the tuple of openai_retry (lines 189-194, with openai.APIError).
CaughtAsRetryable(e, exceptions) ==
    \/ e \in {"RateLimitError", "APIConnectionError", "APITimeoutError"}
    \/ exceptions = "openai" /\ e \in {"ServerError", "ClientError"}

\* isinstance(e, cls) for the three classes should_retry tests;
\* APITimeoutError is a subclass of APIConnectionError.
IsInstance(e, cls) ==
    \/ e = cls
    \/ cls = "APIConnectionError" /\ e = "APITimeoutError"

\* A variant that allows one retry less (sensitivity of C9).
ShouldRetryOneLess(e, att, max_retries) ==
    IF att + 1 >= max_retries THEN FALSE
    ELSE \/ IsInstance(e, "RateLimitError")
         \/ IsInstance(e, "APIConnectionError")
         \/ IsInstance(e, "APITimeoutError")
         \/ StatusCode(e) >= 500

\* A variant that retries every caught error (sensitivity of C10).
ShouldRetryAnything(e, att, max_retries) ==
    IF att >= max_retries THEN FALSE ELSE TRUE

\* should_retry
ShouldRetry(e, att, max_retries) ==
    IF att >= max_retries THEN FALSE
    ELSE \/ IsInstance(e, "RateLimitError")
         \/ IsInstance(e, "APIConnectionError")
         \/ IsInstance(e, "APITimeoutError")
         \/ StatusCode(e) >= 500

(***************************************************************************)
(* Tasks: one analyze_asset call, with the two sleeps of                   *)
(* _analyze_asset_with_delay in front of it in Direct and Batched mode.    *)
(*   st      "stagger_sleep", "rate_sleep", "company", "agent", "done"     *)
(*   slot    the heap cell of the analysis this call creates               *)
(*   key     the cache key computed at entry                               *)
(*   result  the heap cell of the returned analysis, 0 while running       *)
(*   calls   provider calls (company info, agent) this call has made       *)
(*   failed  the steps of this call that raised                            *)
(*   late    the analysis first stored under key before this call began    *)
(*   slept   the sleeps this task has completed, as <<kind, duration>>     *)
(***************************************************************************)
NewTask(position, slot, delay, st) ==
    [position |-> position, slot |-> slot, delay |-> delay, st |-> st,
     key |-> NoKey, result |-> 0, calls |-> 0, failed |-> {}, late |-> 0,
     slept |-> <<>>]

\* Settings.api_rate_limit_delay, at its default of 1.0 s.
ApiRateLimitDelay == 10

\* A variant that counts the tasks from 1 (sensitivity of C21).
DelayedTasksFromOne(positions, base) ==
    [j \in 1..Len(positions) |->
        NewTask(positions[j], base + j, j * stagger_delay,
                IF j * stagger_delay > 0 THEN "stagger_sleep" ELSE "rate_sleep")]

\* Lines 212-216 and 967-970: task j (from 0) sleeps j * stagger_delay.
DelayedTasks(positions, base) ==
    [j \in 1..Len(positions) |->
        NewTask(positions[j], base + j, (j - 1) * stagger_delay,
                IF (j - 1) * stagger_delay > 0 THEN "stagger_sleep" ELSE "rate_sleep")]

AllDone(ts) == \A k \in 1..Len(ts) : ts[k].st = "done"

\* Lines 155-172: context and prompt are built, then the agent is invoked.
\* promptFault: an exception raised while building them (caught at line 183).
PromptAndInvoke(t, promptFault) ==
    IF promptFault
    THEN [task |-> [t EXCEPT !.st = "done", !.result = t.slot,
                             !.failed = @ \cup {"prompt"}],
          made |-> "default"]
    ELSE [task |-> [t EXCEPT !.st = "agent", !.calls = @ + 1], made |-> "agent"]

\* A variant that does not look into the cache (sensitivity of C26).
BeginNoCacheCheck(t, promptFault) ==
    LET key == CacheKey(t.position, today)
        t1 == [t EXCEPT !.key = key, !.late = firstStored[key]]
    IN IF aiera_service
       THEN [task |-> [t1 EXCEPT !.st = "company", !.calls = @ + 1], made |-> "company"]
       ELSE PromptAndInvoke(t1, promptFault)

\* analyze_asset from entry to its first await (lines 130-147 or 130-172).
Begin(t, promptFault) ==
    LET key == CacheKey(t.position, today)
        t1 == [t EXCEPT !.key = key, !.late = firstStored[key]]
    IN IF analysis_cache[key] # 0
       THEN [task |-> [t1 EXCEPT !.st = "done", !.result = analysis_cache[key]],
             made |-> "hit"]
       ELSE IF aiera_service
       THEN [task |-> [t1 EXCEPT !.st = "company", !.calls = @ + 1], made |-> "company"]
       ELSE PromptAndInvoke(t1, promptFault)

\* The effect of a step on the heap and on the count of agent invocations.
StepEffects(step) ==
    /\ heap' = IF step.made = "default"
               THEN [heap EXCEPT ![step.task.slot] = CreateDefaultAnalysis(step.task.position)]
               ELSE heap
    /\ agentRuns' = IF step.made = "agent"
                    THEN [agentRuns EXCEPT ![step.task.key] = @ + 1]
                    ELSE agentRuns

\* asyncio.sleep(delay) of line 938 returns.
StaggerWake(k) ==
    /\ k \in 1..Len(tasks)
    /\ tasks[k].st = "stagger_sleep"
    /\ tasks' = [tasks EXCEPT ![k].st = "rate_sleep",
                              ![k].slept = Append(@, <<"stagger", tasks[k].delay>>)]
    /\ UNCHANGED <<agentVars, pc, portfolio, all_analyses, batch_i, seq_i, result,
                   ghostVars, retryVars, parseVars, configVars, dataVars>>

\* asyncio.sleep(api_rate_limit_delay) of line 941 returns and analyze_asset
\* runs to its first await.
RateWake(k) ==
    /\ k \in 1..Len(tasks)
    /\ tasks[k].st = "rate_sleep"
    /\ \E promptFault \in BOOLEAN :
        LET woken == [tasks[k] EXCEPT !.slept = Append(@, <<"rate", ApiRateLimitDelay>>)]
            step == Begin(woken, promptFault) IN
        /\ tasks' = [tasks EXCEPT ![k] = step.task]
        /\ StepEffects(step)
    /\ UNCHANGED <<enable_parallel_processing, max_concurrent_analyses, stagger_delay,
                   aiera_service, analysis_cache, today,
                   pc, portfolio, all_analyses, batch_i, seq_i, result,
                   modes, batchLog, batchSleeps, seqFailed, firstStored, retryVars, parseVars, configVars, dataVars>>

\* Lines 945-947: an exception raised by one of the two sleeps is caught and
\* the task returns the default analysis.
DelayRaises(k) ==
    /\ k \in 1..Len(tasks)
    /\ tasks[k].st \in {"stagger_sleep", "rate_sleep"}
    /\ tasks' = [tasks EXCEPT ![k].st = "done", ![k].result = tasks[k].slot,
                              ![k].failed = @ \cup {"delay"}]
    /\ heap' = [heap EXCEPT ![tasks[k].slot] = CreateDefaultAnalysis(tasks[k].position)]
    /\ UNCHANGED <<enable_parallel_processing, max_concurrent_analyses, stagger_delay,
                   aiera_service, analysis_cache, today,
                   pc, portfolio, all_analyses, batch_i, seq_i, result,
                   ghostVars, retryVars, parseVars, configVars, dataVars>>

\* get_company_info returns or raises (lines 145-153: a failure is logged and
\* the analysis goes on), then lines 155-172.
CompanyInfoReturns(k) ==
    /\ k \in 1..Len(tasks)
    /\ tasks[k].st = "company"
    /\ \E ok \in BOOLEAN, promptFault \in BOOLEAN :
        LET t1 == IF ok THEN tasks[k]
                  ELSE [tasks[k] EXCEPT !.failed = @ \cup {"company"}]
            step == PromptAndInvoke(t1, promptFault) IN
        /\ tasks' = [tasks EXCEPT ![k] = step.task]
        /\ StepEffects(step)
    /\ UNCHANGED <<enable_parallel_processing, max_concurrent_analyses, stagger_delay,
                   aiera_service, analysis_cache, today,
                   pc, portfolio, all_analyses, batch_i, seq_i, result,
                   modes, batchLog, batchSleeps, seqFailed, firstStored, retryVars, parseVars, configVars, dataVars>>

\* Lines 174-181: parse the response, store the analysis, return it.
Complete(k, response, failedSteps) ==
    LET t == tasks[k]
        analysis == ParseAgentResponse(response, t.position) IN
    /\ heap' = [heap EXCEPT ![t.slot] = analysis]
    /\ analysis_cache' = [analysis_cache EXCEPT ![t.key] = t.slot]
    /\ firstStored' = [firstStored EXCEPT ![t.key] = IF @ = 0 THEN t.slot ELSE @]
    /\ tasks' = [tasks EXCEPT ![k].st = "done", ![k].result = t.slot,
                              ![k].failed = @ \cup failedSteps]
    /\ UNCHANGED <<enable_parallel_processing, max_concurrent_analyses, stagger_delay,
                   aiera_service, today,
                   pc, portfolio, all_analyses, batch_i, seq_i, result,
                   modes, batchLog, batchSleeps, seqFailed, agentRuns, retryVars, parseVars, configVars, dataVars>>

\* agent.ainvoke returns a response (lines 325-336).
AgentReturns(k) ==
    /\ k \in 1..Len(tasks)
    /\ tasks[k].st = "agent"
    /\ \E response \in AgentResponses :
        Complete(k, response, IF response.text THEN {} ELSE {"parse"})

\* Line 320: @openai_retry(max_retries=5, ...) around _run_agent_analysis.
AgentMaxRetries == 5

\* The agent invocations a call has made before the current one.
AgentAttempt(t) == t.calls - 1 - (IF aiera_service THEN 1 ELSE 0)

\* Whether an exception e of agent.ainvoke leaves _run_agent_analysis and
\* reaches the retry wrapper: the function's own 'except Exception' (line
\* 338) catches every one of them and returns the degraded response.
EscapesRunAgentAnalysis(e) == FALSE

\* The wrapper calls _run_agent_analysis again (retry.py lines 99-114).
AgentRetried(e, att) ==
    /\ EscapesRunAgentAnalysis(e)
    /\ CaughtAsRetryable(e, "openai")
    /\ ShouldRetry(e, att, AgentMaxRetries)

\* The errors the retry policy calls transient.
Transient(e) ==
    \/ IsInstance(e, "RateLimitError")
    \/ IsInstance(e, "APIConnectionError")
    \/ StatusCode(e) >= 500

\* The errors agent.ainvoke raises in this model: a timeout, a 5xx status
\* error and an error that is not transient.
AgentErrors == {"APITimeoutError", "ServerError", "ValueError"}

\* agent.ainvoke raises e: _run_agent_analysis returns its degraded response
\* (lines 338-347), which is parsed and stored like any other.
AgentRaises(k) ==
    /\ k \in 1..Len(tasks)
    /\ tasks[k].st = "agent"
    /\ \E e \in AgentErrors :
        IF AgentRetried(e, AgentAttempt(tasks[k]))
        THEN /\ tasks' = [tasks EXCEPT ![k].calls = @ + 1]
             /\ UNCHANGED <<agentVars, pc, portfolio, all_analyses, batch_i, seq_i,
                            result, ghostVars, retryVars, parseVars, configVars, dataVars>>
        ELSE Complete(k, FallbackResponse(tasks[k].position.symbol),
                      IF Transient(e) THEN {"agent", "transient"} ELSE {"agent"})

TaskStep ==
    \E k \in 1..Len(tasks) :
        \/ StaggerWake(k)
        \/ RateWake(k)
        \/ DelayRaises(k)
        \/ CompanyInfoReturns(k)
        \/ AgentReturns(k)
        \/ AgentRaises(k)

(***************************************************************************)
(* generate_portfolio_analysis.                                            *)
(***************************************************************************)
\* A variant that batches already at n = maxConcurrent (sensitivity of C2).
SelectModeStrict(parallel, n, maxConcurrent) ==
    IF ~parallel THEN "Sequential"
    ELSE IF n = 0 THEN "Empty"
    ELSE IF n >= maxConcurrent THEN "Batched"
    ELSE "Direct"

\* Lines 192-208: the mode a run enters first.  "Empty" is the early return
\* of line 203.
SelectMode(parallel, n, maxConcurrent) ==
    IF ~parallel THEN "Sequential"
    ELSE IF n = 0 THEN "Empty"
    ELSE IF n > maxConcurrent THEN "Batched"
    ELSE "Direct"

\* A variant that delivers the results in reverse order (sensitivity of C1).
GatherReversed(ts) == [k \in 1..Len(ts) |-> ts[Len(ts) + 1 - k].result]

\* asyncio.gather returns the results in the order of the awaitables, and
\* lines 226-236 / 976-986 keep that order.  A task never ends in an
\* exception (_analyze_asset_with_delay catches them all), so every result
\* is the analysis the task returned.
Gather(ts) == [k \in 1..Len(ts) |-> ts[k].result]

\* A variant whose thresholds include 20 and 10 (sensitivity of C16).
RiskLevelForWeightInclusive(market_value, total_value) ==
    IF market_value * 100 >= 20 * total_value THEN "high"
    ELSE IF market_value * 100 >= 10 * total_value THEN "medium"
    ELSE "low"

\* Lines 922-927
RiskLevelForWeight(market_value, total_value) ==
    IF market_value * 100 > 20 * total_value THEN "high"
    ELSE IF market_value * 100 > 10 * total_value THEN "medium"
    ELSE "low"

\* _analyze_portfolio_correlations: the analyses are updated in place, the
\* weight kept in hundredths of a percent.
AnalyzePortfolioCorrelations(h, ids, p) ==
    [x \in DOMAIN h |->
        IF x \notin Range(ids) THEN h[x]
        ELSE LET position == GetPositionBySymbol(p, h[x].symbol) IN
             IF position.symbol = "none" THEN h[x]
             ELSE [h[x] EXCEPT
                     !.portfolio_weight = (position.market_value * 10000) \div p.total_value,
                     !.risk_level = RiskLevelForWeight(position.market_value, p.total_value)]]

\* A variant that takes every remaining position (sensitivity of C3).
BatchSliceRest(all, i, maxConcurrent) == SubSeq(all, i + 1, Len(all))

\* Line 959: all_positions[i:i + max_concurrent_analyses]
BatchSlice(all, i, maxConcurrent) == SubSeq(all, i + 1, Min(i + maxConcurrent, Len(all)))

\* Line 961
TotalBatches(n, maxConcurrent) == (n + maxConcurrent - 1) \div maxConcurrent

\* A variant that sleeps after the last batch too (sensitivity of C4).
SleepAfterBatchAlways(i, maxConcurrent, n) == TRUE

\* Line 989: the sleep between two batches.
SleepAfterBatch(i, maxConcurrent, n) == i + maxConcurrent < n

\* Lines 1013-1028: stocks first, then crypto.
SequentialOrder(p) == p.stocks \o p.crypto

\* A variant that keeps the analyses collected before the fallback
\* (sensitivity of C14).
EnterSequentialKeeping(p, from) ==
    /\ pc' = "sequential"
    /\ portfolio' = p
    /\ tasks' = <<>>
    /\ all_analyses' = all_analyses
    /\ seq_i' = 0
    /\ modes' = from \o <<"Sequential">>

\* _sequential_portfolio_analysis is entered (lines 1005-1011) with a fresh,
\* empty list of analyses.
EnterSequential(p, from) ==
    /\ pc' = "sequential"
    /\ portfolio' = p
    /\ tasks' = <<>>
    /\ all_analyses' = <<>>
    /\ seq_i' = 0
    /\ modes' = from \o <<"Sequential">>

Return(list, h) ==
    /\ pc' = "returned"
    /\ result' = list
    /\ heap' = h

\* Lines 192-194: parallel processing disabled.
StartSequential(p) ==
    /\ pc = "idle"
    /\ config_call' = NoCall
    /\ SelectMode(enable_parallel_processing, Len(AllPositions(p)),
                  max_concurrent_analyses) = "Sequential"
    /\ EnterSequential(p, <<>>)
    /\ UNCHANGED <<agentVars, batch_i, result, batchLog, batchSleeps, seqFailed,
                   agentRuns, firstStored, retryVars, parseVars, dataVars>>

\* Lines 201-203: no positions.
StartEmpty(p) ==
    /\ pc = "idle"
    /\ config_call' = NoCall
    /\ SelectMode(enable_parallel_processing, Len(AllPositions(p)),
                  max_concurrent_analyses) = "Empty"
    /\ portfolio' = p
    /\ Return(<<>>, heap)
    /\ UNCHANGED <<enable_parallel_processing, max_concurrent_analyses, stagger_delay,
                   aiera_service, analysis_cache, today,
                   tasks, all_analyses, batch_i, seq_i, ghostVars, retryVars, parseVars, dataVars>>

\* Lines 210-222: one task per position, all awaited together.
StartDirect(p) ==
    /\ pc = "idle"
    /\ config_call' = NoCall
    /\ SelectMode(enable_parallel_processing, Len(AllPositions(p)),
                  max_concurrent_analyses) = "Direct"
    /\ pc' = "direct"
    /\ portfolio' = p
    /\ tasks' = DelayedTasks(AllPositions(p), 0)
    /\ modes' = <<"Direct">>
    /\ UNCHANGED <<agentVars, all_analyses, batch_i, seq_i, result, batchLog,
                   batchSleeps, seqFailed, agentRuns, firstStored, retryVars, parseVars, dataVars>>

\* Lines 222-244: gather has returned.
DirectGathered ==
    /\ pc = "direct"
    /\ AllDone(tasks)
    /\ LET processed == Gather(tasks) IN
       Return(processed, AnalyzePortfolioCorrelations(heap, processed, portfolio))
    /\ UNCHANGED <<enable_parallel_processing, max_concurrent_analyses, stagger_delay,
                   aiera_service, analysis_cache, today,
                   portfolio, tasks, all_analyses, batch_i, seq_i, ghostVars, retryVars, parseVars, configVars, dataVars>>

\* Lines 246-250: an exception raised while the results are processed.
DirectFallback ==
    /\ pc = "direct"
    /\ AllDone(tasks)
    /\ EnterSequential(portfolio, modes)
    /\ UNCHANGED <<agentVars, batch_i, result, batchLog, batchSleeps, seqFailed,
                   agentRuns, firstStored, retryVars, parseVars, configVars, dataVars>>

\* _batch_portfolio_analysis, first pass of the loop of line 958.
StartBatched(p) ==
    /\ pc = "idle"
    /\ config_call' = NoCall
    /\ SelectMode(enable_parallel_processing, Len(AllPositions(p)),
                  max_concurrent_analyses) = "Batched"
    /\ max_concurrent_analyses > 0
    /\ LET batch == BatchSlice(AllPositions(p), 0, max_concurrent_analyses) IN
        /\ tasks' = DelayedTasks(batch, 0)
        /\ batchLog' = <<Len(batch)>>
    /\ pc' = "batch"
    /\ portfolio' = p
    /\ all_analyses' = <<>>
    /\ batch_i' = 0
    /\ modes' = <<"Batched">>
    /\ UNCHANGED <<agentVars, seq_i, result, batchSleeps, seqFailed, agentRuns,
                   firstStored, retryVars, parseVars, dataVars>>

\* range(0, n, 0) raises ValueError, caught at line 999.
StartBatchedZeroStep(p) ==
    /\ pc = "idle"
    /\ config_call' = NoCall
    /\ SelectMode(enable_parallel_processing, Len(AllPositions(p)),
                  max_concurrent_analyses) = "Batched"
    /\ max_concurrent_analyses = 0
    /\ EnterSequential(p, <<"Batched">>)
    /\ UNCHANGED <<agentVars, batch_i, result, batchLog, batchSleeps, seqFailed,
                   agentRuns, firstStored, retryVars, parseVars, dataVars>>

\* range(0, n, step) with a negative step is empty: lines 992-997 return [].
StartBatchedNegativeStep(p) ==
    /\ pc = "idle"
    /\ config_call' = NoCall
    /\ SelectMode(enable_parallel_processing, Len(AllPositions(p)),
                  max_concurrent_analyses) = "Batched"
    /\ max_concurrent_analyses < 0
    /\ portfolio' = p
    /\ modes' = <<"Batched">>
    /\ Return(<<>>, AnalyzePortfolioCorrelations(heap, <<>>, p))
    /\ UNCHANGED <<enable_parallel_processing, max_concurrent_analyses, stagger_delay,
                   aiera_service, analysis_cache, today,
                   tasks, all_analyses, batch_i, seq_i, batchLog, batchSleeps, seqFailed,
                   agentRuns, firstStored, retryVars, parseVars, dataVars>>

\* Lines 973-990: a batch has been gathered and another one follows.
BatchGathered ==
    /\ pc = "batch"
    /\ AllDone(tasks)
    /\ SleepAfterBatch(batch_i, max_concurrent_analyses, Len(AllPositions(portfolio)))
    /\ all_analyses' = all_analyses \o Gather(tasks)
    /\ tasks' = <<>>
    /\ pc' = "batch_sleep"
    /\ batchSleeps' = batchSleeps + 1
    /\ UNCHANGED <<agentVars, portfolio, batch_i, seq_i, result, modes, batchLog,
                   seqFailed, agentRuns, firstStored, retryVars, parseVars, configVars, dataVars>>

\* asyncio.sleep(batch_delay) returns: the next pass of the loop of line 958.
BatchWake ==
    /\ pc = "batch_sleep"
    /\ batch_i + max_concurrent_analyses < Len(AllPositions(portfolio))
    /\ LET i == batch_i + max_concurrent_analyses
           batch == BatchSlice(AllPositions(portfolio), i, max_concurrent_analyses) IN
        /\ batch_i' = i
        /\ tasks' = DelayedTasks(batch, i)
        /\ batchLog' = Append(batchLog, Len(batch))
        /\ pc' = "batch"
    /\ UNCHANGED <<agentVars, portfolio, all_analyses, seq_i, result, modes,
                   batchSleeps, seqFailed, agentRuns, firstStored, retryVars, parseVars, configVars, dataVars>>

\* Lines 973-997: the last batch has been gathered.
BatchFinished ==
    /\ pc = "batch"
    /\ AllDone(tasks)
    /\ ~SleepAfterBatch(batch_i, max_concurrent_analyses, Len(AllPositions(portfolio)))
    /\ LET all == all_analyses \o Gather(tasks) IN
        /\ all_analyses' = all
        /\ Return(all, AnalyzePortfolioCorrelations(heap, all, portfolio))
    /\ UNCHANGED <<enable_parallel_processing, max_concurrent_analyses, stagger_delay,
                   aiera_service, analysis_cache, today,
                   portfolio, tasks, batch_i, seq_i, ghostVars, retryVars, parseVars, configVars, dataVars>>

\* Lines 999-1003: an exception raised in the loop while a batch is processed.
BatchFallback ==
    /\ pc = "batch"
    /\ AllDone(tasks)
    /\ EnterSequential(portfolio, modes)
    /\ UNCHANGED <<agentVars, batch_i, result, batchLog, batchSleeps, seqFailed,
                   agentRuns, firstStored, retryVars, parseVars, configVars, dataVars>>

\* Lines 1013-1028: analyze_asset is called for the next position.
SequentialCall ==
    /\ pc = "sequential"
    /\ tasks = <<>>
    /\ seq_i < Len(SequentialOrder(portfolio))
    /\ \E promptFault \in BOOLEAN :
        LET position == SequentialOrder(portfolio)[seq_i + 1]
            step == Begin(NewTask(position, MaxPositions + seq_i + 1, 0, "entry"),
                          promptFault) IN
        /\ tasks' = <<step.task>>
        /\ StepEffects(step)
    /\ UNCHANGED <<enable_parallel_processing, max_concurrent_analyses, stagger_delay,
                   aiera_service, analysis_cache, today,
                   pc, portfolio, all_analyses, batch_i, seq_i, result,
                   modes, batchLog, batchSleeps, seqFailed, firstStored, retryVars, parseVars, configVars, dataVars>>

\* Lines 1016 and 1025: the analysis is appended.
SequentialCollect ==
    /\ pc = "sequential"
    /\ Len(tasks) = 1
    /\ tasks[1].st = "done"
    /\ all_analyses' = Append(all_analyses, tasks[1].result)
    /\ seq_i' = seq_i + 1
    /\ tasks' = <<>>
    /\ UNCHANGED <<agentVars, pc, portfolio, batch_i, result, ghostVars, retryVars, parseVars, configVars, dataVars>>

\* Lines 1030-1033
SequentialFinished ==
    /\ pc = "sequential"
    /\ tasks = <<>>
    /\ seq_i = Len(SequentialOrder(portfolio))
    /\ Return(all_analyses, AnalyzePortfolioCorrelations(heap, all_analyses, portfolio))
    /\ UNCHANGED <<enable_parallel_processing, max_concurrent_analyses, stagger_delay,
                   aiera_service, analysis_cache, today,
                   portfolio, tasks, all_analyses, batch_i, seq_i, ghostVars, retryVars, parseVars, configVars, dataVars>>

\* A variant in which the handler lets the exception through (sensitivity
\* of C15).
SequentialExceptRaises == [pc |-> "raised", result |-> <<>>]

\* Lines 1035-1037: the handler of the sequential routine logs the error and
\* returns an empty list, which generate_portfolio_analysis returns.
SequentialExcept == [pc |-> "returned", result |-> <<>>]

\* An exception raised in the sequential routine itself, outside the
\* handling of a single position.
SequentialFailure ==
    /\ pc = "sequential"
    /\ tasks = <<>>
    /\ seqFailed' = TRUE
    /\ pc' = SequentialExcept.pc
    /\ result' = SequentialExcept.result
    /\ heap' = heap
    /\ UNCHANGED <<enable_parallel_processing, max_concurrent_analyses, stagger_delay,
                   aiera_service, analysis_cache, today,
                   portfolio, tasks, all_analyses, batch_i, seq_i,
                   modes, batchLog, batchSleeps, agentRuns, firstStored, retryVars, parseVars, configVars, dataVars>>

(***************************************************************************)
(* Configuration methods and service initialisation, before a run.         *)
(***************************************************************************)
\* Arguments of set_max_concurrent_analyses: below, inside and above 1..50.
SetInputs == {0, 2, 100}

\* Lines 1039-1042
DisableParallelProcessing ==
    /\ pc = "idle"
    /\ enable_parallel_processing' = FALSE
    /\ config_call' = <<"disable", 0>>
    /\ UNCHANGED <<max_concurrent_analyses, stagger_delay, aiera_service, analysis_cache,
                   heap, today, runVars, ghostVars, retryVars, parseVars, dataVars>>

\* Lines 1044-1047
EnableParallelProcessingFeature ==
    /\ pc = "idle"
    /\ enable_parallel_processing' = TRUE
    /\ config_call' = <<"enable", 0>>
    /\ UNCHANGED <<max_concurrent_analyses, stagger_delay, aiera_service, analysis_cache,
                   heap, today, runVars, ghostVars, retryVars, parseVars, dataVars>>

\* A variant that clamps to 0..50 (sensitivity of C22).
SetMaxConcurrentAnalysesFromZero(n) ==
    /\ pc = "idle"
    /\ max_concurrent_analyses' = Max(0, Min(50, n))
    /\ config_call' = <<"set", n>>
    /\ UNCHANGED <<enable_parallel_processing, stagger_delay, aiera_service,
                   analysis_cache, heap, today, runVars, ghostVars, retryVars, parseVars, dataVars>>

\* Lines 1049-1052
SetMaxConcurrentAnalyses(n) ==
    /\ pc = "idle"
    /\ max_concurrent_analyses' = Max(1, Min(50, n))
    /\ config_call' = <<"set", n>>
    /\ UNCHANGED <<enable_parallel_processing, stagger_delay, aiera_service,
                   analysis_cache, heap, today, runVars, ghostVars, retryVars, parseVars, dataVars>>

InitializeServices ==
    /\ pc \in {"idle", "adhoc"}
    /\ tasks = <<>>
    /\ ~aiera_service
    /\ aiera_service' = TRUE
    /\ UNCHANGED <<enable_parallel_processing, max_concurrent_analyses, stagger_delay,
                   analysis_cache, heap, today, runVars, ghostVars, retryVars, parseVars, configVars, dataVars>>

(***************************************************************************)
(* Ad hoc analyze_asset calls on one agent, and the passing of days.       *)
(***************************************************************************)
CallAnalyzeAsset(position) ==
    /\ pc = "adhoc"
    /\ Len(tasks) < MaxCalls
    /\ \E promptFault \in BOOLEAN :
        LET step == Begin(NewTask(position, 2 * MaxPositions + Len(tasks) + 1, 0, "entry"),
                          promptFault) IN
        /\ tasks' = Append(tasks, step.task)
        /\ StepEffects(step)
    /\ UNCHANGED <<enable_parallel_processing, max_concurrent_analyses, stagger_delay,
                   aiera_service, analysis_cache, today,
                   pc, portfolio, all_analyses, batch_i, seq_i, result,
                   modes, batchLog, batchSleeps, seqFailed, firstStored, retryVars, parseVars, configVars, dataVars>>

Midnight ==
    /\ today < MaxDay
    /\ today' = today + 1
    /\ UNCHANGED <<enable_parallel_processing, max_concurrent_analyses, stagger_delay,
                   aiera_service, analysis_cache, heap, runVars, ghostVars, retryVars, parseVars, configVars, dataVars>>

(***************************************************************************)
(* The retry wrapper: backoff delays and the wrapper's loop.               *)
(***************************************************************************)
RECURSIVE Power(_, _)
Power(b, n) == IF n <= 0 THEN 1 ELSE b * Power(b, n - 1)

\* A variant without the cap of line 47 (sensitivity of C13).
BackoffDelayUncapped(att, config) ==
    IF att = 0 THEN 0
    ELSE (config.base_delay * Power(config.exponential_base, att - 1)
              * config.multiplier_num) \div config.multiplier_den

\* A variant whose exponent is the attempt number itself (sensitivity of
\* C24).
BackoffDelayLate(att, config) ==
    IF att = 0 THEN 0
    ELSE Min((config.base_delay * Power(config.exponential_base, att)
                  * config.multiplier_num) \div config.multiplier_den,
             config.max_delay)

\* calculate_backoff_delay before the jitter (lines 38-48).
BackoffDelay(att, config) ==
    IF att = 0 THEN 0
    ELSE Min((config.base_delay * Power(config.exponential_base, att - 1)
                  * config.multiplier_num) \div config.multiplier_den,
             config.max_delay)

\* Lines 51-53: the values random.uniform can add (both ends and the middle).
Jitters(delay, config) ==
    IF config.jitter THEN {0 - (delay \div 10), 0, delay \div 10} ELSE {0}

\* calculate_backoff_delay: the delays it can return.
CalculateBackoffDelay(att, config) ==
    IF att = 0 THEN {0}
    ELSE {Max(0, BackoffDelay(att, config) + j) : j \in Jitters(BackoffDelay(att, config), config)}

\* RetryConfig values: openai_retry as the agent uses it (base 2.0 s, factor
\* 1.5), the RetryConfig defaults (base 1.0 s, factor 2.0), a zero base, and
\* a backoff_multiplier of 1.0 with a low max_delay.
DelayConfigs ==
    {[base_delay |-> 20, max_delay |-> 600, exponential_base |-> 2,
      multiplier_num |-> 3, multiplier_den |-> 2, exceptions |-> "openai"],
     [base_delay |-> 10, max_delay |-> 30, exponential_base |-> 2,
      multiplier_num |-> 2, multiplier_den |-> 1, exceptions |-> "default"],
     [base_delay |-> 0, max_delay |-> 600, exponential_base |-> 2,
      multiplier_num |-> 2, multiplier_den |-> 1, exceptions |-> "default"],
     [base_delay |-> 20, max_delay |-> 30, exponential_base |-> 2,
      multiplier_num |-> 1, multiplier_den |-> 1, exceptions |-> "default"]}

RetryConfigs ==
    {[max_retries |-> m, base_delay |-> d.base_delay, max_delay |-> d.max_delay,
      exponential_base |-> d.exponential_base, jitter |-> j,
      multiplier_num |-> d.multiplier_num, multiplier_den |-> d.multiplier_den,
      exceptions |-> d.exceptions] :
        m \in (0 - 1)..MaxRetries, d \in DelayConfigs, j \in BOOLEAN}

NoConfig == [max_retries |-> 0]

\* The loop of line 96 moves on to the next attempt, or ends: lines 120-124
\* raise last_exception, or a plain Exception when there is none.
NextAttempt(last) ==
    IF attempt + 1 <= rconfig.max_retries
    THEN /\ attempt' = attempt + 1
         /\ rpc' = "calling"
         /\ UNCHANGED <<raised, thrown>>
    ELSE /\ rpc' = "raised"
         /\ raised' = raised + 1
         /\ thrown' = IF last = "none" THEN "Exception" ELSE last
         /\ UNCHANGED attempt

\* The wrapped function is called through the wrapper (lines 93-96).
Invoke ==
    /\ rpc = "ready"
    /\ IF 0 <= rconfig.max_retries
       THEN /\ rpc' = "calling"
            /\ UNCHANGED <<raised, thrown>>
       ELSE /\ rpc' = "raised"
            /\ raised' = raised + 1
            /\ thrown' = IF lastError = "none" THEN "Exception" ELSE lastError
    /\ UNCHANGED <<dataVars, configVars, parseVars, agentVars, runVars, ghostVars, rconfig, attempt, calls, sleeps,
                   sleepLog, lastError, script>>

\* Line 98: the operation returns.
OperationReturns ==
    /\ rpc = "calling"
    /\ rpc' = "returned"
    /\ calls' = calls + 1
    /\ script' = Append(script, "ok")
    /\ UNCHANGED <<dataVars, configVars, parseVars, agentVars, runVars, ghostVars, rconfig, attempt, sleeps, sleepLog,
                   raised, lastError, thrown>>

\* Lines 99-114: the operation raises an error of the exceptions tuple.
OperationRaisesCaught(e) ==
    /\ rpc = "calling"
    /\ CaughtAsRetryable(e, rconfig.exceptions)
    /\ calls' = calls + 1
    /\ script' = Append(script, e)
    /\ lastError' = e
    /\ IF ~ShouldRetry(e, attempt, rconfig.max_retries)
       THEN /\ rpc' = "raised"
            /\ raised' = raised + 1
            /\ thrown' = e
            /\ UNCHANGED <<attempt, sleeps, sleepLog>>
       ELSE \E delay \in CalculateBackoffDelay(attempt + 1, rconfig) :
               IF delay > 0
               THEN /\ rpc' = "sleeping"
                    /\ sleeps' = sleeps + 1
                    /\ sleepLog' = Append(sleepLog, delay)
                    /\ UNCHANGED <<attempt, raised, thrown>>
               ELSE /\ NextAttempt(e)
                    /\ UNCHANGED <<sleeps, sleepLog>>
    /\ UNCHANGED <<dataVars, configVars, parseVars, agentVars, runVars, ghostVars, rconfig>>

\* Lines 115-118: the operation raises any other error.
OperationRaisesOther(e) ==
    /\ rpc = "calling"
    /\ ~CaughtAsRetryable(e, rconfig.exceptions)
    /\ calls' = calls + 1
    /\ script' = Append(script, e)
    /\ rpc' = "raised"
    /\ raised' = raised + 1
    /\ thrown' = e
    /\ UNCHANGED <<dataVars, configVars, parseVars, agentVars, runVars, ghostVars, rconfig, attempt, sleeps, sleepLog,
                   lastError>>

\* Line 114: asyncio.sleep(delay) returns.
SleepReturns ==
    /\ rpc = "sleeping"
    /\ NextAttempt(lastError)
    /\ UNCHANGED <<dataVars, configVars, parseVars, agentVars, runVars, ghostVars, rconfig, calls, sleeps, sleepLog,
                   lastError, script>>

(***************************************************************************)
(* Specifications.                                                         *)
(***************************************************************************)
AgentInit(parallelValues, concurrentValues, staggerValues) ==
    /\ enable_parallel_processing \in parallelValues
    /\ max_concurrent_analyses \in concurrentValues
    /\ stagger_delay \in staggerValues
    /\ aiera_service = FALSE
    /\ analysis_cache = [k \in Keys |-> 0]
    /\ heap = [x \in 1..HeapSize |-> NoAnalysis]
    /\ today = 0
    /\ portfolio = CreatePortfolio(<<>>, <<>>)
    /\ tasks = <<>>
    /\ all_analyses = <<>>
    /\ batch_i = 0
    /\ seq_i = 0
    /\ result = <<>>
    /\ modes = <<>>
    /\ batchLog = <<>>
    /\ batchSleeps = 0
    /\ seqFailed = FALSE
    /\ agentRuns = [k \in Keys |-> 0]
    /\ firstStored = [k \in Keys |-> 0]
    /\ config_call = NoCall

RetryInit(state, configs) ==
    /\ rpc = state
    /\ rconfig \in configs
    /\ attempt = 0
    /\ calls = 0
    /\ sleeps = 0
    /\ sleepLog = <<>>
    /\ raised = 0
    /\ lastError = "none"
    /\ thrown = "none"
    /\ script = <<>>

DataInit(series) ==
    /\ prices \in series
    /\ returned = NoReturn

\* One run of generate_portfolio_analysis on a freshly constructed agent.
Init ==
    /\ agent_response = NoResponse
    /\ AgentInit(BOOLEAN, ConcurrentValues, StaggerValues)
    /\ pc = "idle"
    /\ RetryInit("off", {NoConfig})
    /\ DataInit({<<>>})

Next ==
    \/ DisableParallelProcessing
    \/ EnableParallelProcessingFeature
    \/ \E n \in SetInputs : SetMaxConcurrentAnalyses(n)
    \/ InitializeServices
    \/ \E p \in Portfolios : StartSequential(p)
    \/ \E p \in Portfolios : StartEmpty(p)
    \/ \E p \in Portfolios : StartDirect(p)
    \/ \E p \in Portfolios : StartBatched(p)
    \/ \E p \in Portfolios : StartBatchedZeroStep(p)
    \/ \E p \in Portfolios : StartBatchedNegativeStep(p)
    \/ TaskStep
    \/ DirectGathered
    \/ DirectFallback
    \/ BatchGathered
    \/ BatchWake
    \/ BatchFinished
    \/ BatchFallback
    \/ SequentialCall
    \/ SequentialCollect
    \/ SequentialFinished
    \/ SequentialFailure

Spec == Init /\ [][Next]_vars

\* Ad hoc analyze_asset calls that may overlap, across midnight.
InitCache ==
    /\ agent_response = NoResponse
    /\ AgentInit({TRUE}, {MaxConcurrent}, {0})
    /\ pc = "adhoc"
    /\ RetryInit("off", {NoConfig})
    /\ DataInit({<<>>})

NextCache ==
    \/ InitializeServices
    \/ \E s \in StockSymbols : CallAnalyzeAsset(StockPosition(s))
    \/ \E s \in CryptoSymbols : CallAnalyzeAsset(CryptoPosition(s))
    \/ \E k \in 1..Len(tasks) : CompanyInfoReturns(k)
    \/ \E k \in 1..Len(tasks) : AgentReturns(k)
    \/ \E k \in 1..Len(tasks) : AgentRaises(k)
    \/ Midnight

SpecCache == InitCache /\ [][NextCache]_vars

\* One execution of a function wrapped by retry_with_backoff.
InitRetry ==
    /\ agent_response = NoResponse
    /\ AgentInit({TRUE}, {MaxConcurrent}, {0})
    /\ pc = "off"
    /\ RetryInit("ready", RetryConfigs)
    /\ DataInit({<<>>})

NextRetry ==
    \/ Invoke
    \/ OperationReturns
    \/ \E e \in ErrorKinds : OperationRaisesCaught(e)
    \/ \E e \in ErrorKinds : OperationRaisesOther(e)
    \/ SleepReturns

SpecRetry == InitRetry /\ [][NextRetry]_vars

(***************************************************************************)
(* Properties of the portfolio run (checked under Spec).                   *)
(***************************************************************************)
Positions == AllPositions(portfolio)
NumPositions == Len(Positions)
Running == Cardinality({k \in 1..Len(tasks) : tasks[k].st # "done"})
\* The steps whose exception ends the analysis of a position.
Failing(k) == tasks[k].failed \cap {"prompt", "parse", "delay"} # {}

\* C1: with N >= 1 positions and max_concurrent_analyses >= 1, a run whose
\* sequential routine did not itself fail returns exactly N analyses, the
\* i-th one for the i-th position of stocks + crypto, in every mode, for
\* every interleaving of the tasks and every pattern of failing steps.
C1_OrderPreserved ==
    (pc = "returned" /\ ~seqFailed /\ NumPositions >= 1 /\ max_concurrent_analyses >= 1)
        => /\ Len(result) = NumPositions
           /\ \A i \in 1..Len(result) :
                /\ result[i] \in 1..HeapSize
                /\ heap[result[i]].symbol = (portfolio.stocks \o portfolio.crypto)[i].symbol
                /\ heap[result[i]].asset_type =
                       (portfolio.stocks \o portfolio.crypto)[i].asset_type

\* A Direct run of three positions has returned, the first position's
\* analysis having failed and the last one's not.
C1_Witness ==
    /\ pc = "returned"
    /\ modes = <<"Direct">>
    /\ Len(result) = 3
    /\ Failing(1)
    /\ tasks[3].failed = {}
    /\ heap[result[1]].symbol # heap[result[3]].symbol

Count(seq, x) == Cardinality({i \in 1..Len(seq) : seq[i] = x})

\* C2: the mode entered first is Sequential when parallel processing is
\* disabled (and then the sequential routine is the only one called, once,
\* with the portfolio), Direct when 1 <= N <= max_concurrent_analyses, and
\* Batched when N > max_concurrent_analyses (the batch routine called once).
C2_ModeSelection ==
    (pc # "idle" /\ (NumPositions >= 1 \/ ~enable_parallel_processing))
        => /\ Len(modes) >= 1
           /\ modes[1] \in {"Sequential", "Direct", "Batched"}
           /\ ~enable_parallel_processing => modes = <<"Sequential">>
           /\ (enable_parallel_processing /\ NumPositions <= max_concurrent_analyses)
                  => modes[1] = "Direct"
           /\ (enable_parallel_processing /\ NumPositions > max_concurrent_analyses)
                  => modes[1] = "Batched"
           /\ Count(modes, "Batched") <= 1
           /\ Count(modes, "Direct") <= 1
           /\ Count(modes, "Sequential") <= 1

\* A Direct run with exactly max_concurrent_analyses positions has returned.
C2_Witness ==
    /\ pc = "returned"
    /\ enable_parallel_processing
    /\ NumPositions = max_concurrent_analyses
    /\ NumPositions >= 2
    /\ modes = <<"Direct">>

\* C3: with max_concurrent_analyses >= 1, the tasks started and not yet
\* finished never exceed max_concurrent_analyses in Direct and Batched mode
\* and never exceed 1 in Sequential mode.
C3_BoundedConcurrency ==
    (max_concurrent_analyses >= 1 /\ modes # <<>>)
        => IF modes[Len(modes)] = "Sequential"
           THEN Running <= 1
           ELSE Running <= max_concurrent_analyses

\* A batch keeps max_concurrent_analyses = 2 tasks in flight while a third
\* position waits for the next batch.
C3_Witness ==
    /\ pc = "batch"
    /\ max_concurrent_analyses = 2
    /\ NumPositions = 3
    /\ Running = 2

\* The first indices of the chunks: range(0, n, m).
ChunkStarts(n, m) == {i \in 0..(n - 1) : i % m = 0}

\* C4: a Batched run (N > max_concurrent_analyses >= 1) that does not fall
\* back processes ceil(N / max) consecutive chunks of max positions, the
\* last one holding the remainder; a chunk is started only when every
\* earlier position has been collected; one batch_delay sleep lies between
\* two consecutive chunks and none follows the last chunk.
C4_Batching ==
    (modes = <<"Batched">> /\ max_concurrent_analyses >= 1)
        => LET n == NumPositions
               m == max_concurrent_analyses
               chunks == Cardinality(ChunkStarts(n, m))
           IN /\ chunks * m >= n
              /\ (chunks - 1) * m < n
              /\ Len(batchLog) \in 1..chunks
              /\ \A b \in 1..Len(batchLog) :
                    batchLog[b] = IF b < chunks THEN m ELSE n - (chunks - 1) * m
              /\ pc = "batch" =>
                    /\ batchSleeps = Len(batchLog) - 1
                    /\ Len(all_analyses) = (Len(batchLog) - 1) * m
                    /\ Len(tasks) = batchLog[Len(batchLog)]
                    /\ \A k \in 1..Len(tasks) :
                          tasks[k].position = Positions[Len(all_analyses) + k]
              /\ pc = "batch_sleep" =>
                    /\ Len(batchLog) < chunks
                    /\ batchSleeps = Len(batchLog)
                    /\ Running = 0
                    /\ Len(all_analyses) = Len(batchLog) * m
              /\ pc = "returned" =>
                    /\ Len(batchLog) = chunks
                    /\ batchSleeps = chunks - 1

\* Three positions in batches of one: three chunks and two sleeps.
C4_Witness ==
    /\ pc = "returned"
    /\ modes = <<"Batched">>
    /\ batchLog = <<1, 1, 1>>
    /\ batchSleeps = 2
    /\ Len(result) = 3

Done(k) == tasks[k].st = "done"

C7_LaterCallReturnsStored ==
    \A k \in 1..Len(tasks) :
        (Done(k) /\ tasks[k].late # 0)
            => /\ tasks[k].result = tasks[k].late
               /\ tasks[k].calls = 0

\* C8: the agent is invoked at most once per symbol and day.
C8_AgentAtMostOncePerDay ==
    \A key \in Keys : agentRuns[key] <= 1

(***************************************************************************)
(* Properties of the retry wrapper (checked under SpecRetry).              *)
(***************************************************************************)
\* Rate-limit, connection and timeout errors and errors with a status code
\* of 500 or more.
Retryable(e) ==
    \/ e \in {"RateLimitError", "APIConnectionError", "APITimeoutError"}
    \/ e \in {"ServerError", "HttpServerError"}

\* The retryable errors the wrapper's except clause catches.
Retried(e) ==
    \/ e \in {"RateLimitError", "APIConnectionError", "APITimeoutError"}
    \/ rconfig.exceptions = "openai" /\ e = "ServerError"

\* Every call made so far has failed with such an error.
AllRetryable == script # <<>> /\ \A i \in 1..Len(script) : Retryable(script[i])
AllRetried == script # <<>> /\ \A i \in 1..Len(script) : Retried(script[i])

\* C9 as stated: when every call fails with a retryable error, the
\* operation is called exactly max_retries times and the last error is then
\* raised once.
C9_StopsAfterMaxRetriesCalls ==
    AllRetryable
        => /\ calls <= rconfig.max_retries
           /\ rpc = "raised" =>
                 calls = rconfig.max_retries /\ raised = 1 /\ thrown = script[Len(script)]

\* C9 amended: with max_retries >= 0, when every call fails with a retryable
\* error that the wrapper catches, the operation is called exactly
\* max_retries + 1 times (the first attempt and max_retries retries); the
\* last error is then raised once and no further call follows.  A 5xx error
\* outside the wrapper's exception tuple is raised after its first call.
C9_StopsAfterMaxRetriesPlusOne ==
    /\ AllRetried =>
          /\ calls = Len(script)
          /\ calls <= rconfig.max_retries + 1
          /\ rpc = "raised" <=> calls = rconfig.max_retries + 1
          /\ rpc = "raised" => raised = 1 /\ thrown = script[Len(script)]
          /\ rpc # "raised" => raised = 0 /\ thrown = "none"
    /\ (AllRetryable /\ ~AllRetried) =>
          /\ rpc = "raised" /\ raised = 1
          /\ thrown = script[Len(script)]
          /\ ~Retried(thrown)
          /\ calls = Len(script)

\* max_retries = 2: three rate-limited calls, then the error is raised.
C9_Witness ==
    /\ rpc = "raised"
    /\ rconfig.max_retries = 2
    /\ script = <<"RateLimitError", "RateLimitError", "RateLimitError">>
    /\ calls = 3
    /\ raised = 1

\* C10: an error that is not retryable is propagated at once on whichever
\* attempt it occurs: it is the wrapper's last call, no sleep follows it and
\* it is the error raised.
C10_FatalPropagatesImmediately ==
    \A i \in 1..Len(script) :
        (script[i] # "ok" /\ ~Retryable(script[i]))
            => /\ i = Len(script)
               /\ calls = i
               /\ rpc = "raised"
               /\ raised = 1
               /\ thrown = script[i]
               /\ sleeps <= i - 1
               /\ Len(sleepLog) = sleeps

\* A client error on the second attempt of an openai_retry wrapper.
C10_Witness ==
    /\ rpc = "raised"
    /\ rconfig.exceptions = "openai"
    /\ script = <<"APITimeoutError", "ClientError">>
    /\ thrown = "ClientError"
    /\ sleeps = 1

\* C11: an error with a status code of 500 or more is retried whatever its
\* type: while attempts remain, the call that raised it is not the wrapper's
\* last one and the error is not propagated.
C11_ServerErrorsAreRetried ==
    \A i \in 1..Len(script) :
        (StatusCode(script[i]) >= 500 /\ i <= rconfig.max_retries)
            => ~(i = Len(script) /\ rpc = "raised")

\* C12: a call whose agent invocation raised a transient error has invoked
\* the agent again before producing its result.
C12_TransientAgentErrorRetried ==
    \A k \in 1..Len(tasks) :
        (tasks[k].st = "done" /\ "transient" \in tasks[k].failed)
            => tasks[k].calls - (IF aiera_service THEN 1 ELSE 0) >= 2

\* The attempt numbers calculate_backoff_delay is applied to.
Attempts == 0..(MaxRetries + 1)

\* C13 as stated: every delay calculate_backoff_delay has returned to the
\* wrapper is >= 0 and at most max_delay x backoff_multiplier.
C13_DelayWithinMaxTimesMultiplier ==
    \A i \in 1..Len(sleepLog) :
        /\ sleepLog[i] >= 0
        /\ sleepLog[i] * rconfig.multiplier_den <= rconfig.max_delay * rconfig.multiplier_num

\* C13 amended: every delay is >= 0 and at most max_delay, or at most
\* 1.1 x max_delay when jitter is enabled; attempt 0 gives 0.
C13_DelayWithinJitteredMax ==
    rconfig # NoConfig =>
        /\ CalculateBackoffDelay(0, rconfig) = {0}
        /\ \A k \in Attempts : \A d \in CalculateBackoffDelay(k, rconfig) :
              /\ d >= 0
              /\ IF rconfig.jitter
                 THEN 10 * d <= 11 * rconfig.max_delay
                 ELSE d <= rconfig.max_delay
        /\ \A i \in 1..Len(sleepLog) :
              /\ sleepLog[i] > 0
              /\ IF rconfig.jitter
                 THEN 10 * sleepLog[i] <= 11 * rconfig.max_delay
                 ELSE sleepLog[i] <= rconfig.max_delay

\* The wrapper has slept a capped delay with the jitter added on top.
C13_Witness ==
    /\ rconfig # NoConfig
    /\ rconfig.jitter
    /\ \E i \in 1..Len(sleepLog) : sleepLog[i] > rconfig.max_delay

(***************************************************************************)
(* Fallbacks, failures and the correlation pass (checked under Spec).      *)
(***************************************************************************)
\* C14: after an orchestration-level exception in Direct or Batched mode the
\* run enters Sequential once and as its last mode, calls analyze_asset for
\* every position again and, unless the sequential routine itself fails,
\* returns one analysis per position, in order.
C14_FallbackOnce ==
    /\ Len(modes) <= 2
    /\ \A i \in 1..Len(modes) : modes[i] = "Sequential" => i = Len(modes)
    /\ Len(modes) = 2 =>
          /\ modes[1] \in {"Direct", "Batched"}
          /\ modes[2] = "Sequential"
          /\ pc \in {"sequential", "returned"}
          /\ Len(all_analyses) = seq_i
          /\ (pc = "returned" /\ ~seqFailed) =>
                /\ seq_i = NumPositions
                /\ result = all_analyses
                /\ Len(result) = NumPositions
                /\ \A i \in 1..Len(result) :
                      heap[result[i]].symbol = Positions[i].symbol

\* A Batched run fell back after its first chunk and returned three
\* analyses from the sequential routine.
C14_Witness ==
    /\ pc = "returned"
    /\ modes = <<"Batched", "Sequential">>
    /\ Len(batchLog) = 1
    /\ batchLog[1] < NumPositions
    /\ Len(result) = 3

\* C15: a run never ends in an exception: it is under way or has returned a
\* list; when the sequential routine itself fails, the list is empty.
C15_NeverRaises ==
    /\ pc \in {"idle", "direct", "batch", "batch_sleep", "sequential", "returned"}
    /\ seqFailed =>
          /\ pc = "returned"
          /\ result = <<>>
          /\ modes # <<>>
          /\ modes[Len(modes)] = "Sequential"
    /\ pc = "returned" => Len(result) \in {0, NumPositions}

\* The sequential routine failed after a fallback from Direct mode and the
\* run returned the empty list.
C15_Witness ==
    /\ pc = "returned"
    /\ seqFailed
    /\ modes = <<"Direct", "Sequential">>
    /\ NumPositions = 3
    /\ result = <<>>

\* What the correlation pass must leave in analysis a of a position.
Weighted(a, position) ==
    /\ a.portfolio_weight = (position.market_value * 10000) \div portfolio.total_value
    /\ a.risk_level =
          IF position.market_value * 100 > 20 * portfolio.total_value THEN "high"
          ELSE IF position.market_value * 100 > 10 * portfolio.total_value THEN "medium"
          ELSE "low"

\* C16: in every mode each returned analysis carries the weight
\* 100 x market_value / total_value of its position and the risk level of
\* that weight (high above 20, medium above 10 up to 20, low otherwise), and
\* the step that returns the list, correlation pass included, finds every
\* analysis already produced and leaves its recommendation, confidence,
\* overall_score, reasoning and risk_score as they were.
C16_CorrelationPass ==
    /\ [](pc = "returned" =>
            \A i \in 1..Len(result) : Weighted(heap[result[i]], Positions[i]))
    /\ [][(pc # "returned" /\ pc' = "returned") =>
            \A i \in 1..Len(result') :
                LET before == heap[result'[i]]
                    after == heap'[result'[i]] IN
                /\ before.symbol = Positions[i].symbol
                /\ after.symbol = before.symbol
                /\ after.recommendation = before.recommendation
                /\ after.confidence = before.confidence
                /\ after.overall_score = before.overall_score
                /\ after.reasoning = before.reasoning
                /\ after.risk_score = before.risk_score]_vars

\* AAPL at 20% is medium, BUYZ at 10% is low, BTC at 70% is high, and the
\* BUY of the first position is still a BUY.
C16_Witness ==
    /\ pc = "returned"
    /\ Len(result) = 3
    /\ heap[result[1]].symbol = "AAPL" /\ heap[result[1]].risk_level = "medium"
    /\ heap[result[1]].portfolio_weight = 2000
    /\ heap[result[2]].symbol = "BUYZ" /\ heap[result[2]].risk_level = "low"
    /\ heap[result[3]].symbol = "BTC" /\ heap[result[3]].risk_level = "high"
    /\ heap[result[1]].recommendation = "BUY"

(***************************************************************************)
(* AssetAnalysis.create_analysis as a function of its sub-analyses         *)
(* (SpecScore).  Scores and confidences are in hundredths.                 *)
(***************************************************************************)
TechnicalScores == {0, 25, 100}
SentimentScores == {0 - 100, 60}
RiskScores == {30, 100}
Confidences == {30, 90}
EventImpacts == {"neutral", "positive"}

Created == {x \in 1..HeapSize : heap[x] # NoAnalysis}

\* create_analysis is called and the analysis kept.
CallCreateAnalysis ==
    /\ pc = "score"
    /\ Cardinality(Created) < MaxScoreCalls
    /\ \E t \in TechnicalScores, st \in SentimentScores, r \in RiskScores,
          c \in Confidences, ev \in EventImpacts :
          heap' = [heap EXCEPT ![Cardinality(Created) + 1] =
                      CreateAnalysis(StockPosition("AAPL"),
                                     [technical_score |-> t, confidence |-> c],
                                     [sentiment_score |-> st, confidence |-> c],
                                     [overall_impact |-> ev, confidence |-> c],
                                     [risk_level |-> "medium", risk_score |-> r,
                                      confidence |-> c],
                                     "HOLD", "")]
    /\ UNCHANGED <<enable_parallel_processing, max_concurrent_analyses, stagger_delay,
                   aiera_service, analysis_cache, today, runVars, ghostVars, retryVars, parseVars, configVars, dataVars>>

InitScore ==
    /\ agent_response = NoResponse
    /\ AgentInit({TRUE}, {MaxConcurrent}, {0})
    /\ pc = "score"
    /\ RetryInit("off", {NoConfig})
    /\ DataInit({<<>>})

NextScore == CallCreateAnalysis

SpecScore == InitScore /\ [][NextScore]_vars

\* C17: overall_score is 0.4 x technical_score + 0.3 x (sentiment_score + 1)/2
\* + 0.3 x (1 - risk_score) clamped to [0,1], for scores in their ranges; it
\* lies in [0,1], and analyses created from the same three scores have the
\* same overall_score whatever their confidences and event analysis.
C17_OverallScore ==
    /\ \A x \in Created :
          LET a == heap[x]
              weighted == 40 * a.technical_analysis.technical_score
                          + 15 * (a.sentiment_analysis.sentiment_score + 100)
                          + 30 * (100 - a.risk_score) IN
          /\ a.overall_score \in 0..100
          /\ 100 * a.overall_score =
                IF weighted < 0 THEN 0 ELSE IF weighted > 10000 THEN 10000 ELSE weighted
    /\ \A x, y \in Created :
          (/\ heap[x].technical_analysis.technical_score
                  = heap[y].technical_analysis.technical_score
           /\ heap[x].sentiment_analysis.sentiment_score
                  = heap[y].sentiment_analysis.sentiment_score
           /\ heap[x].risk_score = heap[y].risk_score)
              => heap[x].overall_score = heap[y].overall_score

\* Two analyses of the same scores (0.25, 0.6, 0.3) with different
\* confidences and event analyses both score 0.55.
C17_Witness ==
    /\ pc = "score"
    /\ Created = {1, 2}
    /\ heap[1].overall_score = 55
    /\ heap[2].overall_score = 55
    /\ heap[1].confidence # heap[2].confidence
    /\ heap[1].event_analysis.overall_impact # heap[2].event_analysis.overall_impact

(***************************************************************************)
(* _parse_agent_response as a function of the response (SpecParse).        *)
(***************************************************************************)
\* Confidence figures as the patterns capture them, times 100: none, 0,
\* 0.2, 0.3, 0.5, 1, 2 and 85 (the last three as in '1%', '2%' and '85%').
ConfFigures == {0 - 1, 0, 20, 30, 50, 100, 200, 8500}
KeywordCounts == 0..2

\* The responses parsed: the non-text response, and every text whose parts
\* agree with each other (a block field BUY puts 'BUY' into the text, a
\* block confidence is also a figure of the text, no reasoning has no
\* keywords).
ParseInputs ==
    {NonTextResponse} \cup
    {r \in [text : {TRUE}, block : BOOLEAN, rec : {"NONE", "BUY", "SELL", "HOLD"},
            kwBuy : BOOLEAN, kwSell : BOOLEAN, conf : ConfFigures,
            scanConf : ConfFigures, reasoning : {"", "as stated by the agent"},
            neg : KeywordCounts, pos : KeywordCounts, fallback : {FALSE}] :
        /\ ~r.block => (r.rec = "NONE" /\ r.conf < 0)
        /\ r.rec = "BUY" => r.kwBuy
        /\ r.rec = "SELL" => r.kwSell
        /\ r.conf >= 0 => r.scanConf >= 0
        /\ r.reasoning = "" => (r.neg = 0 /\ r.pos = 0)}

\* Lines 177 and 349-491: the response is parsed into an analysis.
CallParseAgentResponse ==
    /\ pc = "parse"
    /\ pc' = "parsed"
    /\ heap' = [heap EXCEPT ![1] = ParseAgentResponse(agent_response, StockPosition("AAPL"))]
    /\ UNCHANGED <<enable_parallel_processing, max_concurrent_analyses, stagger_delay,
                   aiera_service, analysis_cache, today,
                   portfolio, tasks, all_analyses, batch_i, seq_i, result,
                   ghostVars, retryVars, parseVars, configVars, dataVars>>

InitParse ==
    /\ agent_response \in ParseInputs
    /\ AgentInit({TRUE}, {MaxConcurrent}, {0})
    /\ pc = "parse"
    /\ RetryInit("off", {NoConfig})
    /\ DataInit({<<>>})

NextParse == CallParseAgentResponse

SpecParse == InitParse /\ [][NextParse]_vars

\* A captured figure as a confidence in hundredths.
Normalised(figure) == IF figure > 100 THEN (IF figure > 10000 THEN 100 ELSE figure \div 100)
                      ELSE figure

\* The consistency check leaves the confidence of this response alone.
Unpenalised(r, recommendation) ==
    \/ recommendation = "HOLD"
    \/ r.reasoning = ""
    \/ recommendation = "BUY" /\ r.neg <= r.pos
    \/ recommendation = "SELL" /\ r.pos <= r.neg

\* C18: with the structured block, recommendation and confidence come from
\* the block's fields only (HOLD and 0.6 when a field is missing), whatever
\* keywords and figures the rest of the text holds; without it the keyword
\* scan decides, BUY before SELL before HOLD; when nothing parses the result
\* is HOLD at 0.6; a response that cannot be read gives the default
\* analysis instead of an exception.
C18_ParsingPriority ==
    pc = "parsed" =>
        LET r == agent_response
            a == heap[1]
            figure == IF r.block THEN r.conf ELSE r.scanConf IN
        /\ a.symbol = "AAPL"
        /\ a.recommendation \in {"BUY", "SELL", "HOLD"}
        /\ ~r.text => (a.recommendation = "HOLD" /\ a.confidence = 60
                       /\ a.reasoning = DefaultReasoning)
        /\ (r.text /\ r.block) =>
              a.recommendation = (IF r.rec = "NONE" THEN "HOLD" ELSE r.rec)
        /\ (r.text /\ ~r.block) =>
              a.recommendation = (IF r.kwBuy THEN "BUY"
                                  ELSE IF r.kwSell THEN "SELL" ELSE "HOLD")
        /\ (r.text /\ Unpenalised(r, a.recommendation)) =>
              /\ figure < 0 => a.confidence = 60
              /\ figure > 0 => a.confidence = Normalised(figure)
        /\ (r.text /\ ~r.block /\ ~r.kwBuy /\ ~r.kwSell /\ r.scanConf < 0) =>
              (a.recommendation = "HOLD" /\ a.confidence = 60)

\* A block without its recommendation and confidence fields, in a text that
\* says BUY and 85% elsewhere, is parsed as HOLD at 0.6.
C18_Witness ==
    /\ pc = "parsed"
    /\ agent_response.text /\ agent_response.block
    /\ agent_response.rec = "NONE" /\ agent_response.kwBuy
    /\ agent_response.conf < 0 /\ agent_response.scanConf = 8500
    /\ heap[1].recommendation = "HOLD"
    /\ heap[1].confidence = 60

\* The recommendation the block or the keyword scan gives (lines 377-415).
ParsedRecommendation(r) ==
    IF r.block THEN (IF r.rec = "NONE" THEN "HOLD" ELSE r.rec)
    ELSE IF r.kwBuy THEN "BUY" ELSE IF r.kwSell THEN "SELL" ELSE "HOLD"

\* The confidence before the consistency check (lines 392-456).
ConfidenceBeforeCheck(r) ==
    LET figure == IF r.block THEN r.conf ELSE r.scanConf
        parsed == IF figure < 0 THEN 60 ELSE Normalised(figure)
        rec == ParsedRecommendation(r)
    IN IF parsed # 0 THEN parsed
       ELSE IF rec = "BUY" THEN 75 ELSE IF rec = "SELL" THEN 70 ELSE 60

\* C19: the consistency check is advisory: for BUY (SELL) with more
\* contradicting than aligned keywords in the reasoning the confidence c
\* becomes max(0.3, c - 0.2); otherwise, ties included and always for HOLD,
\* it is unchanged; the recommendation is never changed by the check.
C19_AdvisoryPenalty ==
    (pc = "parsed" /\ agent_response.text) =>
        LET r == agent_response
            a == heap[1]
            rec == ParsedRecommendation(r)
            c == ConfidenceBeforeCheck(r)
            contradicted == \/ rec = "BUY" /\ r.neg > r.pos
                            \/ rec = "SELL" /\ r.pos > r.neg
        IN /\ a.recommendation = rec
           /\ contradicted => a.confidence = (IF c - 20 > 30 THEN c - 20 ELSE 30)
           /\ ~contradicted => a.confidence = c

\* A BUY at 85% whose reasoning has two negative keywords and one positive
\* ends at 0.65.
C19_Witness ==
    /\ pc = "parsed"
    /\ agent_response.text
    /\ heap[1].recommendation = "BUY"
    /\ ConfidenceBeforeCheck(agent_response) = 85
    /\ agent_response.neg = 2 /\ agent_response.pos = 1
    /\ heap[1].confidence = 65

\* The response with the negative keywords taken out of its reasoning.
WithoutNegatives(r) == [r EXCEPT !.neg = 0]

\* The reasoning of a BUY holds negative keywords only.
OnlyNegativeBuy ==
    /\ pc = "parsed"
    /\ agent_response.text
    /\ heap[1].recommendation = "BUY"
    /\ agent_response.neg > 0
    /\ agent_response.pos = 0

\* C20 as stated: for every parsed confidence, a BUY whose reasoning holds
\* only negative keywords ends strictly lower than the same BUY without
\* negative keywords.
C20_StrictlyLowerForEveryConfidence ==
    OnlyNegativeBuy =>
        heap[1].confidence <
            ParseAgentResponse(WithoutNegatives(agent_response),
                               StockPosition("AAPL")).confidence

\* C20 as the code has it: the BUY with only negative keywords ends
\* strictly lower, by 0.2 or at the floor 0.3, exactly when the same BUY
\* without them ends above 0.3; when that one ends at 0.3 or below, the
\* penalised confidence is the floor 0.3, equal or higher.
C20_LowerAboveFloor ==
    OnlyNegativeBuy =>
        LET other == ParseAgentResponse(WithoutNegatives(agent_response),
                                        StockPosition("AAPL")).confidence
            mine == heap[1].confidence
        IN /\ other = ConfidenceBeforeCheck(agent_response)
           /\ other > 30 => (mine < other /\ mine >= 30 /\ mine >= other - 20)
           /\ other <= 30 => mine = 30

\* A BUY at 0.5 with only negative keywords ends at the floor 0.3, lower
\* than the 0.5 it has without them.
C20_Witness ==
    /\ OnlyNegativeBuy
    /\ ConfidenceBeforeCheck(agent_response) = 50
    /\ heap[1].confidence = 30

(***************************************************************************)
(* The delayed tasks of Direct and Batched mode (checked under Spec).      *)
(***************************************************************************)
\* The sleeps task t has to complete before analyze_asset is called.
SleepsDue(t) ==
    IF t.delay > 0 THEN <<<<"stagger", t.delay>>, <<"rate", ApiRateLimitDelay>>>>
    ELSE <<<<"rate", ApiRateLimitDelay>>>>

\* analyze_asset has been entered by task t.
Entered(t) == t.key # NoKey

\* C21: in a Direct run and in each chunk of a Batched run the task at index
\* i (from 0) sleeps i * stagger_delay, not at all when that is 0, and then
\* api_rate_limit_delay; analyze_asset is entered only with both sleeps
\* completed; a failure in the delayed task gives the default analysis, not
\* an exception.
C21_StaggeredStart ==
    pc \in {"direct", "batch"} =>
        \A k \in 1..Len(tasks) :
            LET t == tasks[k] IN
            /\ t.delay = (k - 1) * stagger_delay
            /\ t.st = "stagger_sleep" => (t.delay > 0 /\ t.slept = <<>> /\ ~Entered(t))
            /\ t.st = "rate_sleep" =>
                  /\ t.slept = (IF t.delay > 0 THEN <<<<"stagger", t.delay>>>> ELSE <<>>)
                  /\ ~Entered(t)
            /\ Entered(t) => t.slept = SleepsDue(t)
            /\ (t.st \in {"company", "agent"} \/ t.calls > 0) => Entered(t)
            /\ "delay" \in t.failed =>
                  /\ t.st = "done"
                  /\ ~Entered(t)
                  /\ heap[t.result] = CreateDefaultAnalysis(t.position)

\* In the first chunk of a Batched run the second task has slept its stagger
\* delay and the rate-limit delay and called the agent, the first one has
\* failed in a sleep and holds the default analysis.
C21_Witness ==
    /\ pc = "batch"
    /\ NumPositions = 3
    /\ Len(tasks) = 2
    /\ tasks[2].st = "agent"
    /\ tasks[2].slept = <<<<"stagger", 1>>, <<"rate", ApiRateLimitDelay>>>>
    /\ tasks[1].failed = {"delay"}
    /\ heap[tasks[1].result].recommendation = "HOLD"

(***************************************************************************)
(* The configuration methods (checked under Spec).                         *)
(***************************************************************************)
\* C22: set_max_concurrent_analyses(n) leaves max_concurrent_analyses at
\* max(1, min(50, n)), a value of 1..50; disable_parallel_processing and
\* enable_parallel_processing_feature set the flag to False and True and
\* leave max_concurrent_analyses alone; the run that follows selects its
\* mode from the values the calls have left.
C22_Configuration ==
    [][/\ (config_call' # NoCall /\ config_call'[1] = "set") =>
             /\ max_concurrent_analyses' =
                    (IF config_call'[2] < 1 THEN 1
                     ELSE IF config_call'[2] > 50 THEN 50 ELSE config_call'[2])
             /\ max_concurrent_analyses' \in 1..50
             /\ enable_parallel_processing' = enable_parallel_processing
       /\ (config_call' # NoCall /\ config_call'[1] = "disable") =>
             /\ ~enable_parallel_processing'
             /\ max_concurrent_analyses' = max_concurrent_analyses
       /\ (config_call' # NoCall /\ config_call'[1] = "enable") =>
             /\ enable_parallel_processing'
             /\ max_concurrent_analyses' = max_concurrent_analyses
       /\ (pc = "idle" /\ pc' # "idle") =>
             LET n == Len(portfolio'.stocks) + Len(portfolio'.crypto) IN
             /\ enable_parallel_processing' = enable_parallel_processing
             /\ max_concurrent_analyses' = max_concurrent_analyses
             /\ ~enable_parallel_processing => modes'[1] = "Sequential"
             /\ (enable_parallel_processing /\ n >= 1) =>
                   modes'[1] = (IF n > max_concurrent_analyses THEN "Batched"
                                ELSE "Direct")
      ]_vars

\* After set_max_concurrent_analyses(100) a run of three positions has been
\* made in Direct mode with max_concurrent_analyses at 50.
C22_Witness ==
    /\ pc = "returned"
    /\ max_concurrent_analyses = 50
    /\ modes = <<"Direct">>
    /\ Len(result) = 3

(***************************************************************************)
(* DataProcessor (src/src/utils/data_processing.py).  Prices are integers  *)
(* in thousandths; an RSI is an integer in hundredths.                     *)
(***************************************************************************)
RECURSIVE SumSeq(_)
SumSeq(s) == IF s = <<>> THEN 0 ELSE Head(s) + SumSeq(Tail(s))

\* The slice s[-n:]: the last n elements, all of them when there are fewer.
LastN(s, n) == IF Len(s) <= n THEN s ELSE SubSeq(s, Len(s) - n + 1, Len(s))

\* The values round(num / den, 0) can take for num >= 0, den > 0: the nearest
\* integer, and either neighbour when the quotient lies exactly between two,
\* where the error of the floating-point division decides.
RoundDiv(num, den) ==
    LET q == num \div den
        r == num % den
    IN IF 2 * r < den THEN {q} ELSE IF 2 * r > den THEN {q + 1} ELSE {q, q + 1}

\* A variant that averages over all the changes of the series (sensitivity
\* of C23).
CalculateRsiWholeSeries(series) ==
    IF Len(series) < 14 + 1 THEN {5000}
    ELSE LET changes == [i \in 1..(Len(series) - 1) |-> series[i + 1] - series[i]]
             gains == [i \in DOMAIN changes |-> IF changes[i] > 0 THEN changes[i] ELSE 0]
             losses == [i \in DOMAIN changes |-> IF changes[i] < 0 THEN 0 - changes[i] ELSE 0]
             gain == SumSeq(gains)
             loss == SumSeq(losses)
         IN IF loss = 0 THEN {10000}
            ELSE RoundDiv(10000 * gain, gain + loss)

\* _calculate_rsi with period = 14, the values it can return in hundredths.
\* avg_gain / avg_loss is the quotient of the two sums, and
\* 100 - 100 / (1 + rs) is 100 * gain / (gain + loss); line 103 rounds it to
\* two decimals.
CalculateRsi(series) ==
    IF Len(series) < 14 + 1 THEN {5000}
    ELSE LET changes == [i \in 1..(Len(series) - 1) |-> series[i + 1] - series[i]]
             gains == [i \in DOMAIN changes |-> IF changes[i] > 0 THEN changes[i] ELSE 0]
             losses == [i \in DOMAIN changes |-> IF changes[i] < 0 THEN 0 - changes[i] ELSE 0]
             gain == SumSeq(LastN(gains, 14))
             loss == SumSeq(LastN(losses, 14))
         IN IF loss = 0 THEN {10000}
            ELSE RoundDiv(10000 * gain, gain + loss)

MinOf(s) == CHOOSE x \in Range(s) : \A y \in Range(s) : x <= y
MaxOf(s) == CHOOSE x \in Range(s) : \A y \in Range(s) : x >= y

\* round(x, 2) of a price in thousandths (no input of this model ends in 5
\* thousandths).
Round2(x) == LET r == x % 10 IN IF r < 5 THEN x - r ELSE x - r + 10

\* A variant whose window is the 20 bars before the latest one (sensitivity
\* of C30).
CalculateSupportResistancePrior(closes, highs, lows) ==
    IF Len(closes) < 20
    THEN [support |-> MinOf(closes), resistance |-> MaxOf(closes)]
    ELSE LET prior == SubSeq(closes, 1, Len(closes) - 1) IN
         [support |-> Round2(MinOf(LastN(prior, 20))),
          resistance |-> Round2(MaxOf(LastN(prior, 20)))]

\* _calculate_support_resistance
CalculateSupportResistance(closes, highs, lows) ==
    IF Len(closes) < 20
    THEN [support |-> MinOf(closes), resistance |-> MaxOf(closes)]
    ELSE LET recent_highs == IF Len(highs) >= 20 THEN LastN(highs, 20) ELSE LastN(closes, 20)
             recent_lows == IF Len(lows) >= 20 THEN LastN(lows, 20) ELSE LastN(closes, 20)
         IN [support |-> Round2(MinOf(recent_lows)),
             resistance |-> Round2(MaxOf(recent_highs))]

\* detect_chart_patterns: the list of patterns in the order they are appended.
DetectChartPatterns(series) ==
    IF Len(series) < 10 THEN <<>>
    ELSE LET short == SumSeq(LastN(series, 10))
             long == SumSeq(LastN(series, 20))
             cross == IF Len(series) < 20 THEN <<>>
                      ELSE IF 2 * short > long THEN <<"Golden Cross">>
                      ELSE IF 2 * short < long THEN <<"Death Cross">>
                      ELSE <<>>
             recent == LastN(series, 5)
             momentum == IF \A i \in 2..Len(recent) : recent[i] > recent[i - 1]
                         THEN <<"Uptrend">>
                         ELSE IF \A i \in 2..Len(recent) : recent[i] < recent[i - 1]
                         THEN <<"Downtrend">>
                         ELSE <<>>
             levels == CalculateSupportResistance(series, series, series)
             current_price == series[Len(series)]
             breakout == IF Len(series) < 20 THEN <<>>
                         ELSE IF current_price > levels.resistance
                         THEN <<"Resistance Breakout">>
                         ELSE IF current_price < levels.support
                         THEN <<"Support Breakdown">>
                         ELSE <<>>
         IN cross \o momentum \o breakout

\* A series of n prices that rises by up for k steps and then falls by down.
RampSeries(n, start, k, up, down) ==
    [i \in 1..n |-> IF i - 1 <= k THEN start + up * (i - 1)
                    ELSE start + up * k - down * (i - 1 - k)]

\* The series of the exploration: lengths around the thresholds 10, 15 and
\* 20, steps of 0.004, 0.01 and 0.03, a start with two and one with three
\* decimals.
PriceSeries ==
    {RampSeries(n, start, k, up, down) :
        n \in {0, 9, 10, 14, 15, 16, 19, 20, 21}, start \in {10000, 10002},
        k \in 0..20, up \in {0, 4, 10}, down \in {0, 10, 30}}

CallCalculateRsi ==
    /\ pc = "data"
    /\ pc' = "data_done"
    /\ \E rsi \in CalculateRsi(prices) :
          returned' = [fn |-> "rsi", rsi |-> rsi, patterns |-> <<>>]
    /\ UNCHANGED <<agentVars, portfolio, tasks, all_analyses, batch_i, seq_i, result,
                   ghostVars, retryVars, parseVars, configVars, prices>>

CallDetectChartPatterns ==
    /\ pc = "data"
    /\ pc' = "data_done"
    /\ returned' = [fn |-> "patterns", rsi |-> 0, patterns |-> DetectChartPatterns(prices)]
    /\ UNCHANGED <<agentVars, portfolio, tasks, all_analyses, batch_i, seq_i, result,
                   ghostVars, retryVars, parseVars, configVars, prices>>

InitData ==
    /\ agent_response = NoResponse
    /\ AgentInit({TRUE}, {MaxConcurrent}, {0})
    /\ pc = "data"
    /\ RetryInit("off", {NoConfig})
    /\ DataInit(PriceSeries)

NextData ==
    \/ CallCalculateRsi
    \/ CallDetectChartPatterns

SpecData == InitData /\ [][NextData]_vars

\* The sums of the gains and of the losses over the last 14 changes.
WindowGain ==
    SumSeq([j \in 1..14 |->
              LET c == prices[Len(prices) - 14 + j] - prices[Len(prices) - 15 + j]
              IN IF c > 0 THEN c ELSE 0])

WindowLoss ==
    SumSeq([j \in 1..14 |->
              LET c == prices[Len(prices) - 14 + j] - prices[Len(prices) - 15 + j]
              IN IF c < 0 THEN 0 - c ELSE 0])

RsiReturned == pc = "data_done" /\ returned.fn = "rsi"

\* C23 as stated: the RSI is 50.0 for fewer than 15 closes, 100.0 when the
\* average loss over the last 14 deltas is zero, and otherwise exactly
\* 100 - 100 / (1 + avgGain / avgLoss); it lies in [0, 100].
C23_RsiExact ==
    RsiReturned =>
        /\ returned.rsi \in 0..10000
        /\ Len(prices) < 15 => returned.rsi = 5000
        /\ (Len(prices) >= 15 /\ WindowLoss = 0) => returned.rsi = 10000
        /\ (Len(prices) >= 15 /\ WindowLoss > 0) =>
              returned.rsi * (WindowGain + WindowLoss) = 10000 * WindowGain

\* C23 as the code has it: the same, with the value of the formula rounded
\* to two decimals.
C23_RsiRounded ==
    RsiReturned =>
        /\ returned.rsi \in 0..10000
        /\ Len(prices) < 15 => returned.rsi = 5000
        /\ (Len(prices) >= 15 /\ WindowLoss = 0) => returned.rsi = 10000
        /\ (Len(prices) >= 15 /\ WindowLoss > 0) =>
              LET exact == returned.rsi * (WindowGain + WindowLoss)
                  d == exact - 10000 * WindowGain
              IN 2 * (IF d < 0 THEN 0 - d ELSE d) <= WindowGain + WindowLoss

\* A series of 16 closes with gains of 0.05 and losses of 0.09 in its last
\* 14 changes has the RSI 35.71, which is 100 * 5 / 14 rounded.
C23_Witness ==
    /\ RsiReturned
    /\ Len(prices) = 16
    /\ WindowGain = 50
    /\ WindowLoss = 90
    /\ returned.rsi = 3571

\* C30: for a series of at least 20 prices with at most two decimals,
\* detect_chart_patterns reports neither 'Resistance Breakout' nor 'Support
\* Breakdown': the levels are the maximum and the minimum of the last 20
\* prices, the latest close among them, so the latest close is neither above
\* the resistance nor below the support.
C30_NoBreakoutReported ==
    (pc = "data_done" /\ returned.fn = "patterns" /\ Len(prices) >= 20
        /\ \A i \in 1..Len(prices) : prices[i] % 10 = 0)
        => LET levels == CalculateSupportResistance(prices, prices, prices)
               current_price == prices[Len(prices)]
           IN /\ levels.resistance >= current_price
              /\ levels.support <= current_price
              /\ \A i \in (Len(prices) - 19)..Len(prices) :
                    levels.support <= prices[i] /\ prices[i] <= levels.resistance
              /\ \A i \in 1..Len(returned.patterns) :
                    returned.patterns[i] \notin {"Resistance Breakout", "Support Breakdown"}

\* 21 closes rising by 0.01 each, the latest one above every earlier close:
\* the patterns are Golden Cross and Uptrend, without a breakout.
C30_Witness ==
    /\ pc = "data_done"
    /\ returned.fn = "patterns"
    /\ Len(prices) = 21
    /\ \A i \in 1..20 : prices[i + 1] = prices[i] + 10
    /\ prices[1] % 10 = 0
    /\ returned.patterns = <<"Golden Cross", "Uptrend">>

(***************************************************************************)
(* The order of calls and sleeps in the retry wrapper (checked under       *)
(* SpecRetry).                                                             *)
(***************************************************************************)
\* C24 as stated: the first call is preceded by no sleep, each later call
\* by exactly one sleep since the call before it, so that k sleeps precede
\* call k + 1.
C24_OneSleepBeforeEachLaterCall ==
    rpc = "calling" => sleeps = calls

\* C24 as the code has it: the first call is preceded by no sleep; call
\* k + 1 follows the failure of call k after one sleep of
\* min(max_delay, base_delay x exponential_base^(k-1) x backoff_multiplier),
\* jittered by at most a tenth, when that duration is positive, and follows
\* it without any sleep when the duration is 0; a successful call returns at
\* once, with no further call or sleep; no sleep follows the final call.
C24_SleepsBetweenCalls ==
    LET PreJitter(k) ==
            Min(rconfig.max_delay,
                (rconfig.base_delay * Power(rconfig.exponential_base, k - 1)
                    * rconfig.multiplier_num) \div rconfig.multiplier_den)
        Slept(n) == Cardinality({k \in 1..n : PreJitter(k) > 0})
    IN rpc # "off" =>
        /\ Len(sleepLog) = sleeps
        /\ Len(script) = calls
        /\ calls = 0 => sleeps = 0
        /\ rpc = "calling" => sleeps = Slept(calls)
        /\ rpc = "sleeping" =>
              /\ PreJitter(calls) > 0
              /\ sleeps = Slept(calls)
              /\ attempt + 1 <= rconfig.max_retries
        /\ (rpc \in {"returned", "raised"} /\ calls >= 1) => sleeps = Slept(calls - 1)
        /\ rpc = "returned" => script[calls] = "ok"
        /\ \A i \in 1..(calls - 1) : script[i] # "ok"
        /\ \A i \in 1..sleeps :
              LET k == CHOOSE j \in 1..calls : PreJitter(j) > 0 /\ Slept(j) = i IN
              /\ sleepLog[i] >= PreJitter(k) - PreJitter(k) \div 10
              /\ sleepLog[i] <= PreJitter(k) + PreJitter(k) \div 10
              /\ ~rconfig.jitter => sleepLog[i] = PreJitter(k)

\* With the RetryConfig defaults and no jitter the third call has succeeded
\* after two failures: sleeps of 2.0 s and 3.0 s (4.0 s capped at max_delay)
\* lie between the calls and none follows.
C24_Witness ==
    /\ rpc = "returned"
    /\ calls = 3
    /\ script[3] = "ok"
    /\ ~rconfig.jitter
    /\ rconfig.base_delay = 10 /\ rconfig.multiplier_num = 2
    /\ sleepLog = <<20, 30>>

(***************************************************************************)
(* What the cache holds (checked under SpecCache).                         *)
(***************************************************************************)
\* C25: every entry of the cache was produced from a successful agent
\* response: the analysis of a call whose agent run failed, or whose
\* response could not be parsed, is not the entry stored under its key.
C25_CacheHoldsOnlyAgentResults ==
    \A k \in 1..Len(tasks) :
        (Done(k) /\ tasks[k].failed \cap {"agent", "parse"} # {})
            => analysis_cache[tasks[k].key] # tasks[k].slot

C27_OnePerPositionForAnySetting ==
    (pc = "returned" /\ enable_parallel_processing /\ ~seqFailed)
        => Len(result) = NumPositions

(***************************************************************************)
(* Percentages in the structured block (checked under SpecParse).          *)
(***************************************************************************)
\* C28: a block stating 'Confidence Score: X%' with an integer X of 0..100
\* gives, before the consistency adjustment, the confidence X / 100.
C28_PercentageIsHundredths ==
    (pc = "parsed" /\ agent_response.text /\ agent_response.block
        /\ agent_response.conf >= 0 /\ agent_response.conf % 100 = 0
        /\ agent_response.conf <= 10000
        /\ Unpenalised(agent_response, heap[1].recommendation))
        => heap[1].confidence = agent_response.conf \div 100

(***************************************************************************)
(* The scores of the analyses analyze_asset returns (checked under         *)
(* SpecCache).                                                             *)
(***************************************************************************)
\* C29: every analysis analyze_asset returns, parsed from a response or
\* created as a default, has the overall score 0.5 of the default
\* sub-analyses (technical 0.5, sentiment 0.0, risk 0.5); two analyses of
\* one position differ at most in recommendation, confidence and reasoning.
C29_OverallScoreIsHalf ==
    \A k \in 1..Len(tasks) :
        Done(k) =>
            LET a == heap[tasks[k].result] IN
            /\ a.overall_score = 50
            /\ a.technical_analysis.technical_score = 50
            /\ a.sentiment_analysis.sentiment_score = 0
            /\ a.risk_score = 50
            /\ [a EXCEPT !.recommendation = "HOLD", !.confidence = 60,
                         !.reasoning = DefaultReasoning]
                   = CreateDefaultAnalysis(tasks[k].position)

\* Two calls have returned, one with a BUY at 0.85 parsed from the agent's
\* block and one with the default analysis, both with the overall score 0.5.
C29_Witness ==
    \E j, k \in 1..Len(tasks) :
        /\ Done(j) /\ Done(k)
        /\ heap[tasks[j].result].recommendation = "BUY"
        /\ heap[tasks[j].result].confidence = 85
        /\ heap[tasks[j].result].overall_score = 50
        /\ heap[tasks[k].result].reasoning = DefaultReasoning
        /\ heap[tasks[k].result].overall_score = 50

====
